---------------------------- MODULE Spec2Model ----------------------------
(***************************************************************************)
(* Expense tracker: the spreadsheet-to-table loader                        *)
(* (ExpenseAnalytics.get_expenses_dataframe), the duplicate-receipt        *)
(* detector (ExpenseAnalytics.detect_duplicates) and the budget status of  *)
(* analytics_engine.py, the receipt save flow of simple_bot.py over        *)
(* sheets_manager.py, and the budget alerts of budget_manager.py.          *)
(*                                                                         *)
(* State: sheet, the rows of the connected sheet; now, the clock; ret,     *)
(* what the call in progress returned; bot, the objects the bot keeps      *)
(* between updates (the shared sheet handle, the users' sheets and pending *)
(* receipts, the budgets).                                                 *)
(*                                                                         *)
(* Representation.                                                         *)
(*  - A Python str is a sequence of one-character strings; the peso sign   *)
(*    is the single character written "PESO" here.                         *)
(*  - An amount is an integer number of centavos (1/100 peso): 2.0 pesos   *)
(*    is 200.  The cells of the model carry at most two decimals.          *)
(*  - An instant is an integer number of ticks, TicksPerDay ticks to a     *)
(*    day, counted from 1970-01-01 00:00.                                  *)
(*  - A DataFrame is [isNone, columns, rows]: the labels in order and one   *)
(*    function label -> value per row.  A value is tagged: a str, a        *)
(*    number, NaN, a timestamp or NaT.                                     *)
(***************************************************************************)
EXTENDS Integers, Sequences, FiniteSets, TLC

VARIABLES sheet, now, ret, bot

vars == <<sheet, now, ret, bot>>

(***************************************************************************)
(* Bounds of the model.                                                    *)
(***************************************************************************)
MaxRows == 3

MaxClock == 1

TicksPerDay == 2

(***************************************************************************)
(* Python str operations.                                                  *)
(***************************************************************************)
UpperChars == <<"A","B","C","D","E","F","G","H","I","J","K","L","M",
                "N","O","P","Q","R","S","T","U","V","W","X","Y","Z">>

LowerChars == <<"a","b","c","d","e","f","g","h","i","j","k","l","m",
                "n","o","p","q","r","s","t","u","v","w","x","y","z">>

DigitChars == <<"0","1","2","3","4","5","6","7","8","9">>

lower_char(c) ==
    IF \E i \in 1..Len(UpperChars) : UpperChars[i] = c
    THEN LowerChars[CHOOSE i \in 1..Len(UpperChars) : UpperChars[i] = c]
    ELSE c

\* str.lower()
lower(s) == [i \in 1..Len(s) |-> lower_char(s[i])]

IsSpace(c) == c = " "

\* str.strip(): leading and trailing whitespace removed
strip(s) ==
    IF \A i \in 1..Len(s) : IsSpace(s[i]) THEN <<>>
    ELSE LET first == CHOOSE i \in 1..Len(s) :
                          /\ ~IsSpace(s[i])
                          /\ \A j \in 1..(i-1) : IsSpace(s[j])
             last  == CHOOSE i \in 1..Len(s) :
                          /\ ~IsSpace(s[i])
                          /\ \A j \in (i+1)..Len(s) : IsSpace(s[j])
         IN  SubSeq(s, first, last)

\* sub in s
contains(s, sub) ==
    \E i \in 1..(Len(s) - Len(sub) + 1) : SubSeq(s, i, i + Len(sub) - 1) = sub

RECURSIVE str_replace(_, _)
\* s.replace(old, ''), old non-empty: every occurrence, left to right
str_replace(s, old) ==
    IF Len(s) < Len(old) THEN s
    ELSE IF SubSeq(s, 1, Len(old)) = old
         THEN str_replace(SubSeq(s, Len(old) + 1, Len(s)), old)
         ELSE <<s[1]>> \o str_replace(Tail(s), old)

RECURSIVE join(_)
\* ' '.join(cells)
join(cells) ==
    IF Len(cells) = 0 THEN <<>>
    ELSE IF Len(cells) = 1 THEN cells[1]
    ELSE cells[1] \o <<" ">> \o join(Tail(cells))

IsDigit(c) == \E i \in 1..10 : DigitChars[i] = c

DigitVal(c) == (CHOOSE i \in 1..10 : DigitChars[i] = c) - 1

RECURSIVE DigitsVal(_)
\* the value of a non-empty run of decimal digits
DigitsVal(s) ==
    IF Len(s) = 0 THEN 0
    ELSE DigitsVal(SubSeq(s, 1, Len(s) - 1)) * 10 + DigitVal(s[Len(s)])

AllDigits(s) == Len(s) > 0 /\ \A i \in 1..Len(s) : IsDigit(s[i])

(***************************************************************************)
(* DataFrame values.                                                       *)
(***************************************************************************)
Str(s) == [t |-> "str", s |-> s, n |-> 0]

Num(n) == [t |-> "num", s |-> <<>>, n |-> n]

NaN == [t |-> "nan", s |-> <<>>, n |-> 0]

Ts(k) == [t |-> "ts", s |-> <<>>, n |-> k]

NaT == [t |-> "nat", s |-> <<>>, n |-> 0]

None == [t |-> "None", s |-> <<>>, n |-> 0]


(***************************************************************************)
(* pandas conversions.                                                     *)
(***************************************************************************)
\* the position of the single "." of s, or 0 when s has none
DotPos(s) ==
    IF \E i \in 1..Len(s) : s[i] = "." 
    THEN CHOOSE i \in 1..Len(s) : s[i] = "." /\ \A j \in 1..(i-1) : s[j] # "."
    ELSE 0

\* an unsigned decimal with at most two decimals, in centavos; -1: no number
UnsignedCents(s) ==
    LET dot == DotPos(s)
        ip  == IF dot = 0 THEN s ELSE SubSeq(s, 1, dot - 1)
        fp  == IF dot = 0 THEN <<>> ELSE SubSeq(s, dot + 1, Len(s))
    IN  IF /\ Len(ip) + Len(fp) > 0
           /\ \A i \in 1..Len(ip) : IsDigit(ip[i])
           /\ \A i \in 1..Len(fp) : IsDigit(fp[i])
           /\ Len(fp) <= 2
        THEN DigitsVal(ip) * 100
             + (IF Len(fp) = 0 THEN 0
                ELSE IF Len(fp) = 1 THEN DigitVal(fp[1]) * 10
                ELSE DigitsVal(fp))
        ELSE -1

\* pd.to_numeric(x, errors='coerce') of one str: the decimal it spells, or NaN
to_numeric(s) ==
    LET neg  == Len(s) > 0 /\ s[1] = "-"
        body == IF Len(s) > 0 /\ (s[1] = "-" \/ s[1] = "+") THEN Tail(s) ELSE s
        c    == UnsignedCents(body)
    IN  IF c < 0 THEN NaN ELSE Num(IF neg THEN 0 - c ELSE c)

\* clean_amount replacing 'P' before 'PHP'
clean_amount_PFirst(s) ==
    str_replace(str_replace(str_replace(str_replace(str_replace(
        s, <<",">>), <<"PESO">>), <<"P">>), <<"P","H","P">>), <<"$">>)

\* line 111: .str.replace(',', '').str.replace(peso, '').str.replace('PHP', '')
\*           .str.replace('P', '').str.replace('$', '')
clean_amount(s) ==
    str_replace(str_replace(str_replace(str_replace(str_replace(
        s, <<",">>), <<"PESO">>), <<"P","H","P">>), <<"P">>), <<"$">>)

IsLeap(y) == (y % 4 = 0 /\ y % 100 # 0) \/ y % 400 = 0

DaysInMonth(y, m) ==
    IF m = 2 THEN (IF IsLeap(y) THEN 29 ELSE 28)
    ELSE IF m \in {4, 6, 9, 11} THEN 30 ELSE 31

\* days from 1970-01-01 to the civil date y-m-d (proleptic Gregorian)
days_from_civil(y, m, d) ==
    LET yy  == IF m <= 2 THEN y - 1 ELSE y
        era == yy \div 400
        yoe == yy - era * 400
        mp  == IF m > 2 THEN m - 3 ELSE m + 9
        doy == (153 * mp + 2) \div 5 + d - 1
        doe == yoe * 365 + yoe \div 4 - yoe \div 100 + doy
    IN  era * 146097 + doe - 719468

\* pd.to_datetime(x, errors='coerce', dayfirst=True) of one str: an ISO
\* 'YYYY-MM-DD' cell is that day at 00:00; the other cells of the model
\* (names, amounts, blanks) are not dates and give NaT
str_to_datetime(s) ==
    IF /\ Len(s) = 10
       /\ s[5] = "-" /\ s[8] = "-"
       /\ AllDigits(SubSeq(s, 1, 4))
       /\ AllDigits(SubSeq(s, 6, 7))
       /\ AllDigits(SubSeq(s, 9, 10))
    THEN LET y == DigitsVal(SubSeq(s, 1, 4))
             m == DigitsVal(SubSeq(s, 6, 7))
             d == DigitsVal(SubSeq(s, 9, 10))
         IN  IF m \in 1..12 /\ d >= 1 /\ d <= DaysInMonth(y, m)
             THEN Ts(days_from_civil(y, m, d) * TicksPerDay)
             ELSE NaT
    ELSE NaT

\* pd.to_datetime of one value of a column.  A number is taken as
\* nanoseconds since the epoch: every amount of the model is then an
\* instant of 1970-01-01, tick 0.
to_datetime(v) ==
    IF v.t = "str" THEN str_to_datetime(v.s)
    ELSE IF v.t = "num" THEN Ts(0)
    ELSE IF v.t = "ts" THEN v
    ELSE NaT

notna(v) == v.t # "nan" /\ v.t # "nat" /\ v.t # "None"

(***************************************************************************)
(* DataFrame operations.                                                   *)
(***************************************************************************)
SeqToSet(q) == {q[i] : i \in 1..Len(q)}

\* the None a caller gets in place of a frame
NoneFrame == [isNone |-> TRUE, columns |-> <<>>, rows |-> <<>>]

\* df[label] = values, one value per row: an existing column is overwritten
\* in place, a new one is appended after the last column
SetColumn(df, label, values) ==
    [isNone  |-> FALSE,
     columns |-> IF label \in SeqToSet(df.columns) THEN df.columns
                 ELSE Append(df.columns, label),
     rows    |-> [i \in 1..Len(df.rows) |->
                    [c \in DOMAIN df.rows[i] \cup {label} |->
                        IF c = label THEN values[i] ELSE df.rows[i][c]]]]

\* df[mask]: the rows whose entry of the boolean mask is true, in their order
Filter(df, mask) ==
    LET kept == SelectSeq([i \in 1..Len(df.rows) |-> i], LAMBDA i : mask[i])
    IN  [isNone |-> FALSE, columns |-> df.columns,
         rows |-> [k \in 1..Len(kept) |-> df.rows[kept[k]]]]

\* a column label found by a search of df.columns, or None
NoColumn == [found |-> FALSE, col |-> <<>>]

\* the first column of the frame whose label p accepts (p maps each label of
\* the frame to a boolean), or None
FirstColumn(df, p) ==
    IF \E i \in 1..Len(df.columns) : p[df.columns[i]]
    THEN [found |-> TRUE,
          col   |-> df.columns[CHOOSE i \in 1..Len(df.columns) :
                                   /\ p[df.columns[i]]
                                   /\ \A j \in 1..(i-1) : ~p[df.columns[j]]]]
    ELSE NoColumn

\* truthiness of a column label or None: None and '' are falsy
Truthy(c) == c.found /\ c.col # <<>>

(***************************************************************************)
(* ExpenseAnalytics.get_expenses_dataframe.  Row and column indexes are    *)
(* 1-based here; index 0 stands for Python's None.                         *)
(***************************************************************************)
\* line 38: ['date', 'amount', 'store', 'merchant', 'category']
HeaderKeywords == {<<"d","a","t","e">>, <<"a","m","o","u","n","t">>, <<"s","t","o","r","e">>,
                   <<"m","e","r","c","h","a","n","t">>, <<"c","a","t","e","g","o","r","y">>}

\* the default headers with the amount in second place
DefaultHeaders_AmountSecond ==
    << <<"D","a","t","e">>, <<"A","m","o","u","n","t">>, <<"S","t","o","r","e","/","M","e","r","c","h","a","n","t">>, <<"C","a","t","e","g","o","r","y">>, <<"P","a","y","m","e","n","t"," ","M","e","t","h","o","d">>,
       <<"N","o","t","e","s">>, <<"R","e","c","e","i","p","t"," ","D","a","t","e">>, <<"A","d","d","e","d"," ","D","a","t","e">> >>

\* line 47: the default headers
DefaultHeaders ==
    << <<"D","a","t","e">>, <<"S","t","o","r","e","/","M","e","r","c","h","a","n","t">>,
       <<"A","m","o","u","n","t">>, <<"C","a","t","e","g","o","r","y">>,
       <<"P","a","y","m","e","n","t"," ","M","e","t","h","o","d">>,
       <<"N","o","t","e","s">>, <<"R","e","c","e","i","p","t"," ","D","a","t","e">>,
       <<"A","d","d","e","d"," ","D","a","t","e">> >>

\* IsHeaderRow without the test len(row) >= 3 of line 35
IsHeaderRow_AnyLength(row) ==
    LET row_text == join([i \in 1..Len(row) |-> lower(row[i])])
    IN  \E keyword \in HeaderKeywords : contains(row_text, keyword)

\* lines 35-38: a row of at least 3 cells whose text holds a header keyword
IsHeaderRow(row) ==
    /\ Len(row) >= 3
    /\ LET row_text == join([i \in 1..Len(row) |-> lower(row[i])])
       IN  \E keyword \in HeaderKeywords : contains(row_text, keyword)

\* lines 31-42: the first header row, scanning from the top; 0: none
header_row_index(all_values) ==
    IF \E i \in 1..Len(all_values) : IsHeaderRow(all_values[i])
    THEN CHOOSE i \in 1..Len(all_values) :
             /\ IsHeaderRow(all_values[i])
             /\ \A j \in 1..(i-1) : ~IsHeaderRow(all_values[j])
    ELSE 0

\* line 60: any(cell.strip() for cell in row)
NonEmptyRow(row) == \E i \in 1..Len(row) : strip(row[i]) # <<>>

\* MakeRecord handing the non-blank cells of the row to the labels in turn
MakeRecord_SkippingBlanks(headers, row) ==
    LET cells == SelectSeq(row, LAMBDA cell : strip(cell) # <<>>)
    IN  [header \in SeqToSet(headers) |->
            LET col_idx == CHOOSE i \in 1..Len(headers) :
                               /\ headers[i] = header
                               /\ \A j \in (i+1)..Len(headers) : headers[j] # header
            IN  IF col_idx <= Len(cells) THEN Str(cells[col_idx]) ELSE Str(<<>>)]

\* lines 71-76: the dict of one row; a label that occurs twice keeps the
\* cell of its last occurrence
MakeRecord(headers, row) ==
    [header \in SeqToSet(headers) |->
        LET col_idx == CHOOSE i \in 1..Len(headers) :
                           /\ headers[i] = header
                           /\ \A j \in (i+1)..Len(headers) : headers[j] # header
        IN  IF col_idx <= Len(row) THEN Str(row[col_idx]) ELSE Str(<<>>)]

\* line 79: any(str(value).strip() for value in record.values())
NonEmptyRecord(record) == \E h \in DOMAIN record : strip(record[h].s) # <<>>

RECURSIVE Dedupe(_)
\* the keys of the dicts in insertion order: each label once, at its first place
Dedupe(headers) ==
    IF Len(headers) = 0 THEN <<>>
    ELSE LET init == Dedupe(SubSeq(headers, 1, Len(headers) - 1))
             last == headers[Len(headers)]
         IN  IF last \in SeqToSet(init) THEN init ELSE Append(init, last)

\* FindAmountColumn testing the cells after the cleaning of line 111
FindAmountColumn_Cleaned(df) ==
    LET by_name == FirstColumn(df, [col \in SeqToSet(df.columns) |->
                       contains(lower(col), <<"a","m","o","u","n","t">>)])
    IN  IF Truthy(by_name) THEN by_name
        ELSE FirstColumn(df, [col \in SeqToSet(df.columns) |->
                 \E i \in 1..Len(df.rows) :
                     notna(to_numeric(clean_amount(df.rows[i][col].s)))])

\* lines 90-107: the amount column, by name, else the first column with a
\* numeric value
FindAmountColumn(df) ==
    LET by_name == FirstColumn(df, [col \in SeqToSet(df.columns) |->
                       contains(lower(col), <<"a","m","o","u","n","t">>)])
    IN  IF Truthy(by_name) THEN by_name
        ELSE FirstColumn(df, [col \in SeqToSet(df.columns) |->
                 \E i \in 1..Len(df.rows) : notna(to_numeric(df.rows[i][col].s))])

\* lines 109-112: df['Amount'], cleaned and converted
WithAmount(df, amount_col) ==
    SetColumn(df, <<"A","m","o","u","n","t">>,
              [i \in 1..Len(df.rows) |->
                  to_numeric(clean_amount(df.rows[i][amount_col.col].s))])

\* lines 119-139: df['Date'], from the date column found by name, else from
\* the first column with a value that converts
WithDate(df) ==
    LET date_col == FirstColumn(df, [col \in SeqToSet(df.columns) |->
                        /\ contains(lower(col), <<"d","a","t","e">>)
                        /\ ~contains(lower(col), <<"a","d","d","e","d">>)
                        /\ ~contains(lower(col), <<"r","e","c","e","i","p","t">>)])
        like_col == FirstColumn(df, [col \in SeqToSet(df.columns) |->
                        \E i \in 1..Len(df.rows) : notna(to_datetime(df.rows[i][col]))])
    IN  IF Truthy(date_col)
        THEN SetColumn(df, <<"D","a","t","e">>,
                       [i \in 1..Len(df.rows) |-> to_datetime(df.rows[i][date_col.col])])
        ELSE IF like_col.found
        THEN SetColumn(df, <<"D","a","t","e">>,
                       [i \in 1..Len(df.rows) |-> to_datetime(df.rows[i][like_col.col])])
        ELSE df

\* lines 142-148: df['Category']
WithCategory(df) ==
    LET category_col == FirstColumn(df, [col \in SeqToSet(df.columns) |->
                            contains(lower(col), <<"c","a","t","e","g","o","r","y">>)])
    IN  IF category_col.found
        THEN SetColumn(df, <<"C","a","t","e","g","o","r","y">>,
                       [i \in 1..Len(df.rows) |-> df.rows[i][category_col.col]])
        ELSE df

\* lines 154, 297: any(word in col.lower() for word in ['store', 'merchant', 'vendor'])
IsMerchantLabel(col) ==
    \E word \in {<<"s","t","o","r","e">>, <<"m","e","r","c","h","a","n","t">>, <<"v","e","n","d","o","r">>} : contains(lower(col), word)

\* lines 151-157: df['Store/Merchant']
WithMerchant(df) ==
    LET merchant_col == FirstColumn(df, [col \in SeqToSet(df.columns) |->
                            IsMerchantLabel(col)])
    IN  IF merchant_col.found
        THEN SetColumn(df, <<"S","t","o","r","e","/","M","e","r","c","h","a","n","t">>,
                       [i \in 1..Len(df.rows) |-> df.rows[i][merchant_col.col]])
        ELSE df

\* ValidAmount without the test Amount > 0 of line 162
ValidAmount_AnyNumber(r) == r[<<"A","m","o","u","n","t">>].t = "num"

\* lines 161-162: dropna(subset=['Amount']) and Amount > 0
ValidAmount(r) == r[<<"A","m","o","u","n","t">>].t = "num" /\ r[<<"A","m","o","u","n","t">>].n > 0

\* DropInvalid giving the rows left newest first
DropInvalid_NewestFirst(df) ==
    LET pos  == Filter(df, [i \in 1..Len(df.rows) |-> ValidAmount(df.rows[i])])
        left == IF <<"D","a","t","e">> \in SeqToSet(pos.columns)
                THEN Filter(pos, [i \in 1..Len(pos.rows) |-> notna(pos.rows[i][<<"D","a","t","e">>])])
                ELSE pos
    IN  [isNone |-> FALSE, columns |-> left.columns,
         rows |-> [k \in 1..Len(left.rows) |-> left.rows[Len(left.rows) + 1 - k]]]

\* lines 164-165: dropna(subset=['Date']) when the frame has a Date column
DropInvalid(df) ==
    LET pos == Filter(df, [i \in 1..Len(df.rows) |-> ValidAmount(df.rows[i])])
    IN  IF <<"D","a","t","e">> \in SeqToSet(pos.columns)
        THEN Filter(pos, [i \in 1..Len(pos.rows) |-> notna(pos.rows[i][<<"D","a","t","e">>])])
        ELSE pos

\* lines 89-178: the columns found and cleaned, the invalid rows dropped
CleanFrame(df) ==
    LET amount_col == FindAmountColumn(df)
    IN  IF ~Truthy(amount_col) THEN NoneFrame
        ELSE LET out == DropInvalid(WithMerchant(WithCategory(WithDate(
                            WithAmount(df, amount_col)))))
             IN  IF Len(out.rows) = 0 THEN NoneFrame ELSE out

\* lines 24-86: the frame of the records as assembled, before any column is
\* cleaned, or None
records_frame(all_values) ==
    IF Len(all_values) = 0 THEN NoneFrame
    ELSE
    LET hidx       == header_row_index(all_values)
        headers    == IF hidx = 0 THEN DefaultHeaders ELSE all_values[hidx]
        data_start == IF hidx = 0 THEN 1 ELSE hidx + 1
    IN  IF data_start > Len(all_values) THEN NoneFrame
        ELSE
        LET data_rows == SelectSeq(SubSeq(all_values, data_start, Len(all_values)),
                                   NonEmptyRow)
            records   == SelectSeq([i \in 1..Len(data_rows) |->
                                       MakeRecord(headers, data_rows[i])],
                                   NonEmptyRecord)
        IN  IF Len(data_rows) = 0 \/ Len(records) = 0 THEN NoneFrame
            ELSE [isNone |-> FALSE, columns |-> Dedupe(headers),
                  rows |-> records]

\* lines 16-184: the frame of the sheet's rows, or None
\* (df is bound to the assembled frame, computed once)
get_expenses_dataframe(all_values) ==
    CHOOSE out \in { IF df.isNone THEN NoneFrame ELSE CleanFrame(df) :
                         df \in {records_frame(all_values)} } : TRUE

(***************************************************************************)
(* fuzz.ratio (fuzzywuzzy over difflib.SequenceMatcher):                   *)
(* int(round(100 * 2 * M / T)), M the characters in matching blocks, T the *)
(* two lengths together.                                                   *)
(***************************************************************************)
RECURSIVE common_prefix_len(_, _, _, _)
\* the length of the longest common prefix of a[i..] and b[j..]
common_prefix_len(a, b, i, j) ==
    IF i > Len(a) \/ j > Len(b) \/ a[i] # b[j] THEN 0
    ELSE 1 + common_prefix_len(a, b, i + 1, j + 1)

RECURSIVE matching_chars(_, _)
\* SequenceMatcher.get_matching_blocks: the longest matching block, the one
\* starting earliest in a and then earliest in b, then the same to its left
\* and to its right
matching_chars(a, b) ==
    IF Len(a) = 0 \/ Len(b) = 0 THEN 0
    ELSE
    LET size   == [p \in (1..Len(a)) \X (1..Len(b)) |->
                      common_prefix_len(a, b, p[1], p[2])]
        k      == CHOOSE n \in {size[p] : p \in DOMAIN size} :
                      \A p \in DOMAIN size : size[p] <= n
        blocks == {p \in DOMAIN size : size[p] = k}
        i      == CHOOSE x \in {p[1] : p \in blocks} :
                      \A p \in blocks : x <= p[1]
        j      == CHOOSE y \in {p[2] : p \in {q \in blocks : q[1] = i}} :
                      \A p \in blocks : p[1] = i => y <= p[2]
    IN  IF k = 0 THEN 0
        ELSE k + matching_chars(SubSeq(a, 1, i - 1), SubSeq(b, 1, j - 1))
               + matching_chars(SubSeq(a, i + k, Len(a)), SubSeq(b, j + k, Len(b)))

\* round(x) of Python 3 for x = num / den >= 0: to the nearest, a half to even
round_half_even(num, den) ==
    LET q == num \div den
        r == num % den
    IN  IF 2 * r > den THEN q + 1
        ELSE IF 2 * r < den THEN q
        ELSE IF q % 2 = 0 THEN q ELSE q + 1

\* line 318: fuzz.ratio(s1, s2); 0 for an empty string
fuzz_ratio(s1, s2) ==
    IF Len(s1) = 0 \/ Len(s2) = 0 THEN 0
    ELSE round_half_even(100 * 2 * matching_chars(s1, s2), Len(s1) + Len(s2))

(***************************************************************************)
(* ExpenseAnalytics.detect_duplicates.                                     *)
(***************************************************************************)
\* line 286: timedelta(days=30)
WindowDays == 30

\* line 291: df.tail(20)
TailCount == 20

\* line 324: merchant_similarity >= 70
SimilarMerchant == 70

\* line 328: merchant_similarity >= 85
VerySimilarMerchant == 85

\* line 328: amount_diff <= 2.0, in centavos
CloseAmount == 200

\* a key the dict does not hold
Absent == [t |-> "absent", s |-> <<>>, n |-> 0]

\* dict_get finding no key
dict_get_NoKey(d, key, default) == default

\* dict.get(key, default)
dict_get(d, key, default) == IF d[key] = Absent THEN default ELSE d[key]

\* recent_expenses without the 30-day filter of line 287
recent_expenses_All(df, clock) == df

\* recent_expenses keeping the records of the last 30 days up to now only
recent_expenses_UpToNow(df, clock) ==
    IF <<"D","a","t","e">> \in SeqToSet(df.columns)
    THEN Filter(df, [i \in 1..Len(df.rows) |->
                        /\ df.rows[i][<<"D","a","t","e">>].n >= clock - WindowDays * TicksPerDay
                        /\ df.rows[i][<<"D","a","t","e">>].n <= clock])
    ELSE df

\* lines 285-292: the records compared with the new expense
recent_expenses(df, clock) ==
    IF <<"D","a","t","e">> \in SeqToSet(df.columns)
    THEN Filter(df, [i \in 1..Len(df.rows) |->
                        df.rows[i][<<"D","a","t","e">>].n >= clock - WindowDays * TicksPerDay])
    ELSE [isNone  |-> FALSE,
          columns |-> df.columns,
          rows    |-> SubSeq(df.rows,
                             IF Len(df.rows) > TailCount
                             THEN Len(df.rows) - TailCount + 1 ELSE 1,
                             Len(df.rows))]

\* match_reason with the close-amount rule tested before the exact-amount rule
match_reason_CloseFirst(amount_diff, merchant_similarity, new_merchant, expense_merchant) ==
    IF amount_diff <= CloseAmount /\ merchant_similarity >= VerySimilarMerchant
    THEN "Very close amount + very similar merchant"
    ELSE IF amount_diff = 0 /\ merchant_similarity >= SimilarMerchant
    THEN "Exact amount + similar merchant"
    ELSE IF amount_diff = 0 /\ (new_merchant = <<>> \/ expense_merchant = <<>>)
    THEN "Exact amount (merchant info missing)"
    ELSE ""

\* match_reason with the close-amount rule using amount_match of line 313
\* (amount_diff <= 5.0)
match_reason_Within5(amount_diff, merchant_similarity, new_merchant, expense_merchant) ==
    IF amount_diff = 0 /\ merchant_similarity >= SimilarMerchant
    THEN "Exact amount + similar merchant"
    ELSE IF amount_diff <= 500 /\ merchant_similarity >= VerySimilarMerchant
    THEN "Very close amount + very similar merchant"
    ELSE IF amount_diff = 0 /\ (new_merchant = <<>> \/ expense_merchant = <<>>)
    THEN "Exact amount (merchant info missing)"
    ELSE ""

\* match_reason with the missing-merchant rule accepting a close amount
match_reason_MissingClose(amount_diff, merchant_similarity, new_merchant, expense_merchant) ==
    IF amount_diff = 0 /\ merchant_similarity >= SimilarMerchant
    THEN "Exact amount + similar merchant"
    ELSE IF amount_diff <= CloseAmount /\ merchant_similarity >= VerySimilarMerchant
    THEN "Very close amount + very similar merchant"
    ELSE IF amount_diff <= CloseAmount
            /\ (new_merchant = <<>> \/ expense_merchant = <<>>)
    THEN "Exact amount (merchant info missing)"
    ELSE ""

\* lines 324-335: the reason a pair is a duplicate, "" when it is none
match_reason(amount_diff, merchant_similarity, new_merchant, expense_merchant) ==
    IF amount_diff = 0 /\ merchant_similarity >= SimilarMerchant
    THEN "Exact amount + similar merchant"
    ELSE IF amount_diff <= CloseAmount /\ merchant_similarity >= VerySimilarMerchant
    THEN "Very close amount + very similar merchant"
    ELSE IF amount_diff = 0 /\ (new_merchant = <<>> \/ expense_merchant = <<>>)
    THEN "Exact amount (merchant info missing)"
    ELSE ""

Abs(x) == IF x < 0 THEN 0 - x ELSE x

\* duplicate_info comparing the stored merchant as it is, without
\* .lower().strip() of line 310
duplicate_info_Raw(expense, merchant_col, new_amount, new_merchant) ==
    LET amount_diff == Abs(expense[<<"A","m","o","u","n","t">>].n - new_amount)
        expense_merchant ==
            IF merchant_col.found /\ merchant_col.col \in DOMAIN expense
            THEN expense[merchant_col.col].s
            ELSE <<>>
        merchant_similarity ==
            IF new_merchant # <<>> /\ expense_merchant # <<>>
            THEN fuzz_ratio(expense_merchant, new_merchant)
            ELSE 0
    IN  [amount     |-> expense[<<"A","m","o","u","n","t">>].n,
         merchant   |-> IF expense_merchant # <<>> THEN expense_merchant
                        ELSE <<"U","n","k","n","o","w","n">>,
         date       |-> IF <<"D","a","t","e">> \in DOMAIN expense THEN expense[<<"D","a","t","e">>]
                        ELSE NaT,
         reason     |-> match_reason(amount_diff, merchant_similarity,
                                     new_merchant, expense_merchant),
         similarity |-> merchant_similarity]

\* lines 305-345: one record of the pool against the new expense
duplicate_info(expense, merchant_col, new_amount, new_merchant) ==
    LET amount_diff == Abs(expense[<<"A","m","o","u","n","t">>].n - new_amount)
        expense_merchant ==
            IF merchant_col.found /\ merchant_col.col \in DOMAIN expense
            THEN strip(lower(expense[merchant_col.col].s))
            ELSE <<>>
        merchant_similarity ==
            IF new_merchant # <<>> /\ expense_merchant # <<>>
            THEN fuzz_ratio(expense_merchant, new_merchant)
            ELSE 0
    IN  [amount     |-> expense[<<"A","m","o","u","n","t">>].n,
         merchant   |-> IF expense_merchant # <<>> THEN expense_merchant
                        ELSE <<"U","n","k","n","o","w","n">>,
         date       |-> IF <<"D","a","t","e">> \in DOMAIN expense THEN expense[<<"D","a","t","e">>]
                        ELSE NaT,
         reason     |-> match_reason(amount_diff, merchant_similarity,
                                     new_merchant, expense_merchant),
         similarity |-> merchant_similarity]

\* best_match_index keeping the last entry of the highest similarity
best_match_index_Last(duplicates_found) ==
    CHOOSE i \in 1..Len(duplicates_found) :
        /\ \A j \in 1..Len(duplicates_found) :
               duplicates_found[j].similarity <= duplicates_found[i].similarity
        /\ \A j \in (i+1)..Len(duplicates_found) :
               duplicates_found[j].similarity < duplicates_found[i].similarity

\* line 352: max(duplicates_found, key=lambda x: x['similarity']): the first
\* entry of the highest similarity
best_match_index(duplicates_found) ==
    CHOOSE i \in 1..Len(duplicates_found) :
        /\ \A j \in 1..Len(duplicates_found) :
               duplicates_found[j].similarity <= duplicates_found[i].similarity
        /\ \A j \in 1..(i-1) :
               duplicates_found[j].similarity < duplicates_found[i].similarity

\* count_note counting the receipts other than the best match
count_note_Others(duplicates_found) ==
    IF Len(duplicates_found) > 1 THEN Len(duplicates_found) - 1 ELSE 0

\* lines 359-360: the count in "Found N similar receipts", 0 when the
\* message has no such note
count_note(duplicates_found) ==
    IF Len(duplicates_found) > 1 THEN Len(duplicates_found) ELSE 0

NoMatch == [amount |-> 0, merchant |-> <<>>, date |-> NaT, reason |-> "",
            similarity |-> 0]

\* what a call leaves: whether it raised, the pair it returned (the message
\* by its parts) and its locals df, recent_expenses (the rows) and
\* duplicates_found
Result(raised, is_duplicate, text, best_match, note, duplicates_found, df, pool) ==
    [raised |-> raised, is_duplicate |-> is_duplicate, text |-> text,
     best_match |-> best_match, note |-> note,
     duplicates_found |-> duplicates_found,
     df |-> df, recent_expenses |-> pool]

\* lines 269-364
detect_duplicates(all_values, new_expense, clock) ==
    LET df == get_expenses_dataframe(all_values)
    IN
    IF df.isNone \/ Len(df.rows) = 0
    THEN Result(FALSE, FALSE,
                "No duplicates found - first expense!", NoMatch, 0, <<>>,
                df, <<>>)
    ELSE IF <<"A","m","o","u","n","t">> \notin SeqToSet(df.columns)
    THEN Result(FALSE, FALSE,
                "Cannot check duplicates - missing amount data", NoMatch, 0, <<>>,
                df, <<>>)
    ELSE
    LET new_amount   == dict_get(new_expense, "total_amount", Num(0))
        new_merchant == strip(lower(dict_get(new_expense, "merchant", Str(<<>>)).s))
    IN
    \* line 282: f"{new_amount:.2f}" raises TypeError for None
    IF new_amount.t # "num"
    THEN Result(TRUE, FALSE, "TypeError", NoMatch, 0, <<>>, df, <<>>)
    ELSE
    LET pool         == recent_expenses(df, clock)
        merchant_col == FirstColumn(df, [col \in SeqToSet(df.columns) |->
                            IsMerchantLabel(col)])
        infos == [i \in 1..Len(pool.rows) |->
                     duplicate_info(pool.rows[i], merchant_col,
                                    new_amount.n, new_merchant)]
        duplicates_found == SelectSeq(infos, LAMBDA d : d.reason # "")
    IN  IF Len(duplicates_found) > 0
        THEN Result(FALSE, TRUE,
                    "Possible duplicate receipt found!",
                    duplicates_found[best_match_index(duplicates_found)],
                    count_note(duplicates_found),
                    duplicates_found, df, pool.rows)
        ELSE Result(FALSE, FALSE,
                    "No duplicates detected", NoMatch, 0, <<>>, df, pool.rows)

(***************************************************************************)
(* The sheets, rows and receipts of the model.  A data row is laid out     *)
(* merchant, amount, category, date.                                       *)
(***************************************************************************)
HeaderRows ==
    { << <<"S","t","o","r","e","/","M","e","r","c","h","a","n","t">>, <<"A","m","o","u","n","t">>, <<"C","a","t","e","g","o","r","y">>, <<"D","a","t","e">> >>,
      << <<"I","t","e","m">>, <<"A","m","o","u","n","t">>, <<"C","a","t","e","g","o","r","y">>, <<"D","a","t","e">> >>,
      << <<"S","t","o","r","e">>, <<"A","m","o","u","n","t">>, <<"C","a","t","e","g","o","r","y">> >> }

\* the clock starts at 2024-03-10 00:00
StartTick == days_from_civil(2024, 3, 10) * TicksPerDay

RecentDate == <<"2","0","2","4","-","0","3","-","0","5">>

\* 40 days before the start of the clock
OldDate == <<"2","0","2","4","-","0","1","-","3","0">>

DataRow(merchant, amount, date) == << merchant, amount, <<"F","o","o","d">>, date >>

\* the rows the detector is checked on
DataRows ==
    { DataRow(<<"j","o","l","l","i","b","e","e"," ">>, <<"1","0","0",".","0","0">>, RecentDate),
      DataRow(<<"J","o","l","i","b","e","e">>, <<"1","0","1",".","5","0">>, RecentDate),
      DataRow(<<"J","o","l","l","i">>, <<"PESO","1","0","0",".","0","0">>, RecentDate),
      DataRow(<<"S","h","e","l","l">>, <<"P","H","P","1","0","0",".","0","0">>, RecentDate),
      DataRow(<<>>, <<"1","0","1",".","5","0">>, RecentDate),
      DataRow(<<"J","o","l","l","i","b","e","e">>, <<"1","0","0",".","0","0">>, OldDate),
      DataRow(<<"J","o","l","l","i","b","e","e">>, <<"1","0","2",".","0","0">>, RecentDate),
      DataRow(<<"j","o","l","l","i","b","e","e">>, <<"1","0","3",".","5","1">>, RecentDate) }

\* the rows the loader is checked on
LoadRows ==
    { DataRow(<<"J","o","l","l","i","b","e","e">>, <<"1","0","0",".","0","0">>, RecentDate),
      DataRow(<<"S","h","e","l","l">>, <<"PESO","1",",","2","3","4",".","5","0">>, OldDate),
      DataRow(<<"S","h","e","l","l">>, <<"-","5",".","0","0">>, RecentDate),
      DataRow(<<"S","h","e","l","l">>, <<"0">>, RecentDate),
      DataRow(<<"S","h","e","l","l">>, <<"a","b","c">>, RecentDate),
      DataRow(<<"S","h","e","l","l">>, <<>>, RecentDate),
      DataRow(<<"J","o","l","l","i","b","e","e">>, <<"1","2",".","5">>, <<"n","/","a">>),
      << <<>>, <<" ">>, <<>>, <<>> >> }

\* a receipt as extract_info gives it: total_amount and merchant
Receipt(total_amount, merchant) ==
    [total_amount |-> total_amount, merchant |-> merchant]

Receipts ==
    { Receipt(Num(10000), Str(<<"J","o","l","l","i","b","e","e">>)),
      Receipt(Num(10150), Str(<<"J","o","l","l","i","b","e","e">>)),
      Receipt(Num(10150), Absent),
      Receipt(None, Str(<<"J","o","l","l","i","b","e","e">>)),
      Receipt(Absent, Str(<<" ">>)) }

(***************************************************************************)
(* The state machine: the rows of the connected sheet, the clock, and what *)
(* the call in progress returned.  The bot handles one update at a time:   *)
(* a call is made, its result is used, and then the next event happens.    *)
(***************************************************************************)
NoResult == Result(FALSE, FALSE, "", NoMatch, 0, <<>>, NoneFrame, <<>>)

NoReceipt == Receipt(Absent, Absent)

\* the bot outside the save flow: no sheet is connected
NoBot == [handle |-> "none"]

Idle == [op |-> "idle", new_expense |-> NoReceipt, df |-> NoneFrame,
         out |-> NoResult]

Init ==
    /\ sheet \in {<<>>} \cup {<<h>> : h \in HeaderRows}
    /\ now = StartTick
    /\ ret = Idle
    /\ bot = NoBot

\* a row is appended to the sheet (Worksheet.append_row)
AppendRow(row) ==
    /\ ret.op = "idle"
    /\ Len(sheet) >= 1
    /\ Len(sheet) < MaxRows
    /\ sheet' = Append(sheet, row)
    /\ UNCHANGED <<now, ret, bot>>

\* time passes
Tick ==
    /\ ret.op = "idle"
    /\ now < StartTick + MaxClock
    /\ now' = now + 1
    /\ UNCHANGED <<sheet, ret, bot>>

\* a caller loads the frame
Load ==
    /\ ret.op = "idle"
    /\ ret' = [op |-> "get_expenses_dataframe", new_expense |-> NoReceipt,
               df |-> get_expenses_dataframe(sheet), out |-> NoResult]
    /\ UNCHANGED <<sheet, now, bot>>

\* handle_photo checks a receipt (simple_bot.py line 210)
Detect(new_expense) ==
    /\ ret.op = "idle"
    /\ ret' = [op |-> "detect_duplicates", new_expense |-> new_expense,
               df |-> NoneFrame,
               out |-> detect_duplicates(sheet, new_expense, now)]
    /\ UNCHANGED <<sheet, now, bot>>

\* the caller is done with what the call returned
Return ==
    /\ ret.op # "idle"
    /\ ret' = Idle
    /\ UNCHANGED <<sheet, now, bot>>

Next ==
    \/ \E row \in DataRows : AppendRow(row)
    \/ Tick
    \/ \E new_expense \in Receipts : Detect(new_expense)
    \/ Return

\* receipts are checked against a sheet as time passes
Spec == Init /\ [][Next]_vars

NextLoad ==
    \/ \E row \in LoadRows : AppendRow(row)
    \/ Load
    \/ Return

\* the sheet is loaded
SpecLoad == Init /\ [][NextLoad]_vars

(***************************************************************************)
(* The store as the loader meets it: a sheet of any shape, a connection    *)
(* that may be missing and a read that may fail.                           *)
(***************************************************************************)
\* the rows a raw sheet is made of: rows of 2, 3, 4 and 5 cells, header
\* rows, data rows laid out for a three-column header or for the default
\* headers, and rows whose amount or date does not parse
RawRows ==
    { << <<"f","o","o">>, <<"b","a","r">> >>,
      << <<"D","a","t","e">>, <<"A","m","o","u","n","t">> >>,
      << <<"D","a","t","e">>, <<"A","m","o","u","n","t">>, <<"C","a","t","e","g","o","r","y">> >>,
      << <<"D","a","t","e">>, <<"T","o","t","a","l">>, <<"C","a","t","e","g","o","r","y">> >>,
      << <<"2","0","2","4","-","0","1","-","0","1">>, <<"1","2",".","5","0">>, <<"F","o","o","d">> >>,
      << <<"s","o","m","e","d","a","y">>, <<"9",".","9","9">>, <<"F","o","o","d">> >>,
      << <<"2","0","2","4","-","0","3","-","0","5">>, <<"S","h","e","l","l">>, <<"P","1","0","0",".","0","0">>, <<"F","u","e","l">> >>,
      << <<"2","0","2","4","-","0","3","-","0","6">>, <<"J","o","l","l","i","b","e","e">>, <<"4","5",".","0","0">>, <<"F","o","o","d">>, <<"C","a","s","h">> >> }

\* how the read of line 23 goes: the rows are returned, the API raises, or
\* there is no connected sheet (line 19)
Fetches == {"ok", "error", "no_sheet"}

\* the outcome of a call: whether the call raised, and the frame or None
Outcome(raised, df) == [raised |-> raised, df |-> df]

\* try_get_expenses_dataframe without the handler of lines 180-184
try_get_expenses_dataframe_NoHandler(fetch, all_values) ==
    IF fetch = "no_sheet" THEN Outcome(FALSE, NoneFrame)
    ELSE IF fetch = "error" THEN Outcome(TRUE, NoneFrame)
    ELSE Outcome(FALSE, get_expenses_dataframe(all_values))

\* lines 18-26 and 180-184: the body of get_expenses_dataframe runs in a try
\* block whose handler returns None
try_get_expenses_dataframe(fetch, all_values) ==
    IF fetch = "no_sheet" THEN Outcome(FALSE, NoneFrame)
    ELSE IF fetch = "error" THEN Outcome(FALSE, NoneFrame)
    ELSE Outcome(FALSE, get_expenses_dataframe(all_values))

InitStore ==
    /\ sheet = <<>>
    /\ now = StartTick
    /\ ret = Idle
    /\ bot = NoBot

\* the owner of the sheet writes a row, of any shape, below the others
AppendRaw(row) ==
    /\ ret.op = "idle"
    /\ Len(sheet) < MaxRows
    /\ sheet' = Append(sheet, row)
    /\ UNCHANGED <<now, ret, bot>>

\* LoadStore with a loader that writes the default header row on a sheet it
\* finds empty
LoadStore_WritingHeaders(fetch) ==
    /\ ret.op = "idle"
    /\ LET o == try_get_expenses_dataframe(fetch, sheet)
       IN  ret' = [op |-> "get_expenses_dataframe", new_expense |-> NoReceipt,
                   df |-> o.df,
                   out |-> [NoResult EXCEPT !.raised = o.raised, !.text = fetch]]
    /\ sheet' = IF sheet = <<>> THEN <<DefaultHeaders>> ELSE sheet
    /\ UNCHANGED <<now, bot>>

\* a caller loads the frame; ret.out.text keeps how the read went
LoadStore(fetch) ==
    /\ ret.op = "idle"
    /\ LET o == try_get_expenses_dataframe(fetch, sheet)
       IN  ret' = [op |-> "get_expenses_dataframe", new_expense |-> NoReceipt,
                   df |-> o.df,
                   out |-> [NoResult EXCEPT !.raised = o.raised, !.text = fetch]]
    /\ UNCHANGED <<sheet, now, bot>>

\* LoadAgain with a loader that keeps the rows it has handed out and returns
\* only what is new
LoadAgain_Consumed ==
    /\ ret.op = "get_expenses_dataframe"
    /\ ret.out.text = "ok"
    /\ ret' = [op |-> "get_expenses_dataframe_again", new_expense |-> NoReceipt,
               df |-> NoneFrame,
               out |-> [NoResult EXCEPT !.df = ret.df, !.text = "ok"]]
    /\ UNCHANGED <<sheet, now, bot>>

\* the caller loads the frame a second time (simple_bot.py lines 124-127:
\* generate_monthly_summary, then get_category_insights); ret.out.df keeps
\* what the first call returned
LoadAgain ==
    /\ ret.op = "get_expenses_dataframe"
    /\ ret.out.text = "ok"
    /\ ret' = [op |-> "get_expenses_dataframe_again", new_expense |-> NoReceipt,
               df |-> try_get_expenses_dataframe("ok", sheet).df,
               out |-> [NoResult EXCEPT !.df = ret.df, !.text = "ok"]]
    /\ UNCHANGED <<sheet, now, bot>>

\* the receipt checked against the raw sheets
StoreReceipt == Receipt(Num(4500), Str(<<"J","o","l","l","i","b","e","e">>))

NextStore ==
    \/ \E row \in RawRows : AppendRaw(row)
    \/ \E fetch \in Fetches : LoadStore(fetch)
    \/ LoadAgain
    \/ Detect(StoreReceipt)
    \/ Return

\* a sheet of any shape is loaded, loaded again and checked
SpecStore == InitStore /\ [][NextStore]_vars

(***************************************************************************)
(* Amount cells: decimals written plain or with thousands separators,      *)
(* bare or behind a currency marker.                                       *)
(***************************************************************************)
\* a decimal: as written, with thousands separators, and its centavos
Decimal(text, grouped, cents) == [text |-> text, grouped |-> grouped, cents |-> cents]

Decimals ==
    { Decimal(<<"1","2","3","4",".","5","0">>, <<"1",",","2","3","4",".","5","0">>, 123450),
      Decimal(<<"2","5","0","0">>, <<"2",",","5","0","0">>, 250000),
      Decimal(<<"1","0","0","0","0","0","0",".","0","0">>, <<"1",",","0","0","0",",","0","0","0",".","0","0">>, 100000000),
      Decimal(<<"1","2",".","5">>, <<"1","2",".","5">>, 1250),
      Decimal(<<"1","0","0">>, <<"1","0","0">>, 10000),
      Decimal(<<"0",".","7","5">>, <<"0",".","7","5">>, 75),
      Decimal(<<"4","5",".","0","0">>, <<"4","5",".","0","0">>, 4500),
      Decimal(<<"9","9","9",".","9","9">>, <<"9","9","9",".","9","9">>, 99999) }

\* line 111: the currency markers, and no marker
Markers == { <<>>, <<"PESO">>, <<"P","H","P">>, <<"P">>, <<"$">> }

AmountCells ==
    {m \o d.text : m \in Markers, d \in Decimals}
        \cup {m \o d.grouped : m \in Markers, d \in Decimals}

\* a sheet of one expense whose amount is one of the cells
InitAmount ==
    /\ sheet \in { << << <<"S","t","o","r","e","/","M","e","r","c","h","a","n","t">>, <<"A","m","o","u","n","t">>, <<"C","a","t","e","g","o","r","y">>, <<"D","a","t","e">> >>,
                      DataRow(<<"S","h","e","l","l">>, cell, RecentDate) >> : cell \in AmountCells }
    /\ now = StartTick
    /\ ret = Idle
    /\ bot = NoBot

NextAmount ==
    \/ Load
    \/ Return

\* a sheet of one expense is loaded
SpecAmount == InitAmount /\ [][NextAmount]_vars

(***************************************************************************)
(* Candidates as the contract of the detector names them, and as           *)
(* extract_info supplies them.                                             *)
(***************************************************************************)
\* a candidate carrying its amount under the key 'amount'
Candidate(amount, merchant) ==
    [amount |-> amount, total_amount |-> Absent, merchant |-> merchant]

Candidates ==
    { Candidate(Num(10000), Str(<<"J","o","l","l","i","b","e","e">>)),
      Candidate(Num(10150), Str(<<"J","o","l","l","i","b","e","e">>)),
      Receipt(Num(10000), Str(<<"J","o","l","l","i","b","e","e">>)),
      Receipt(Num(10150), Str(<<"J","o","l","l","i","b","e","e">>)) }

CandidateRows ==
    { DataRow(<<"j","o","l","l","i","b","e","e"," ">>, <<"1","0","0",".","0","0">>, RecentDate),
      DataRow(<<"J","o","l","l","i","b","e","e">>, <<"1","0","1",".","5","0">>, RecentDate),
      DataRow(<<"S","h","e","l","l">>, <<"P","H","P","1","0","0",".","0","0">>, RecentDate),
      DataRow(<<"J","o","l","l","i","b","e","e">>, <<"1","0","4",".","0","0">>, RecentDate) }

NextCandidate ==
    \/ \E row \in CandidateRows : AppendRow(row)
    \/ \E new_expense \in Candidates : Detect(new_expense)
    \/ Return

\* candidates of both shapes are checked against a sheet
SpecCandidate == Init /\ [][NextCandidate]_vars

(***************************************************************************)
(* Sheets for the roles of the columns: headers that name the amount and   *)
(* the date in several ways or not at all, and rows shorter and longer     *)
(* than their header.                                                      *)
(***************************************************************************)
RoleHeaders ==
    { DefaultHeaders,
      << <<"Q","t","y">>, <<"A","m","o","u","n","t"," ","(","P","H","P",")">>, <<"S","t","o","r","e">>, <<"D","a","t","e">> >>,
      << <<"D","a","t","e">>, <<"T","o","t","a","l">>, <<"C","a","t","e","g","o","r","y">> >>,
      << <<>>, <<"S","t","o","r","e">>, <<"C","a","t","e","g","o","r","y">> >>,
      << <<"S","t","o","r","e">>, <<"N","e","t"," ","a","m","o","u","n","t">>, <<"A","M","O","U","N","T">>, <<"R","e","c","e","i","p","t"," ","D","a","t","e">>, <<"P","u","r","c","h","a","s","e"," ","d","a","t","e">> >>,
      << <<"S","t","o","r","e">>, <<"A","m","o","u","n","t">>, <<"C","a","t","e","g","o","r","y">>, <<"W","h","e","n">> >>,
      << <<"S","t","o","r","e">>, <<"T","o","t","a","l">>, <<"C","a","t","e","g","o","r","y">>, <<"W","h","e","n">> >>,
      << <<"D","a","t","e">>, <<"A","m","o","u","n","t">>, <<"S","t","o","r","e">>, <<"N","o","t","e","s">>, <<"N","o","t","e","s">> >> }

RoleRows ==
    { << <<"2">>, <<"P","1","0","0",".","0","0">>, <<"S","h","e","l","l">>, <<"2","0","2","4","-","0","3","-","0","5">> >>,
      << <<"2","0","2","4","-","0","3","-","0","5">>, <<"4","5",".","5","0">>, <<"F","o","o","d">> >>,
      << <<"1","2",".","5","0">>, <<"S","h","e","l","l">>, <<"F","o","o","d">> >>,
      << <<"S","h","e","l","l">>, <<"1","2",".","5","0">>, <<"F","o","o","d">>, <<"2","0","2","4","-","0","3","-","0","5">> >>,
      << <<"S","h","e","l","l">>, <<"8","0",".","0","0">>, <<"7","5",".","0","0">>, <<"2","0","2","4","-","0","1","-","3","0">>, <<"2","0","2","4","-","0","3","-","0","5">> >>,
      << <<"2","0","2","4","-","0","3","-","0","5">>, <<"4","5",".","5","0">>, <<"S","h","e","l","l">>, <<"a">>, <<"b">>, <<"c">> >>,
      << <<"2","0","2","4","-","0","3","-","0","5">>, <<"S","h","e","l","l">>, <<"1","0","0",".","0","0">>, <<"F","o","o","d">>, <<"C","a","s","h">>, <<>>, <<"2","0","2","4","-","0","1","-","3","0">>, <<"2","0","2","4","-","0","3","-","0","1"," ","1","2",":","0","0",":","0","0">> >>,
      << <<>>, <<>>, <<>>, <<>>, <<>>, <<>>, <<>>, <<"x">> >>,
      << <<" ">>, <<>>, <<>> >> }

InitRoles ==
    /\ sheet \in {<<h>> : h \in RoleHeaders}
    /\ now = StartTick
    /\ ret = Idle
    /\ bot = NoBot

\* the records of the sheet are assembled (lines 24-86 of the loader)
Assemble ==
    /\ ret.op = "idle"
    /\ ret' = [op |-> "records", new_expense |-> NoReceipt,
               df |-> records_frame(sheet), out |-> NoResult]
    /\ UNCHANGED <<sheet, now, bot>>

NextRoles ==
    \/ \E row \in RoleRows : AppendRow(row)
    \/ Assemble
    \/ Load
    \/ Return

\* sheets under one of the headers are assembled and loaded
SpecRoles == InitRoles /\ [][NextRoles]_vars

(***************************************************************************)
(* The receipt save flow of simple_bot.py: handle_photo and the force_save *)
(* and cancel_save callbacks, over the one ExpenseSheets object that all   *)
(* the users share.  The Application is built without concurrent updates,  *)
(* so a handler runs to its end before the next update is taken.           *)
(***************************************************************************)
MaxMessages == 2

\* the users; each has registered the sheet of their own name in user_sheets
Users == {"u1", "u2"}

user_sheets == [u \in Users |-> u]

RECURSIVE ToDigits(_)
\* str(n) of a natural number
ToDigits(n) ==
    IF n < 10 THEN <<DigitChars[n + 1]>>
    ELSE ToDigits(n \div 10) \o <<DigitChars[(n % 10) + 1]>>

\* n written on at least two digits ('%02d')
TwoDigits(n) == IF n < 10 THEN <<"0">> \o ToDigits(n) ELSE ToDigits(n)

\* the text of a cell holding the number of cents/100, as get_all_values
\* reads it back: no trailing zeros, no decimal point on a whole number
number_cell(cents) ==
    LET whole == ToDigits(cents \div 100)
        frac  == cents % 100
    IN  IF frac = 0 THEN whole
        ELSE IF frac % 10 = 0 THEN whole \o <<".">> \o ToDigits(frac \div 10)
        ELSE whole \o <<".">> \o TwoDigits(frac)

\* the civil date of a day counted from 1970-01-01
civil_from_days(days) ==
    LET z   == days + 719468
        era == z \div 146097
        doe == z - era * 146097
        yoe == (doe - doe \div 1460 + doe \div 36524 - doe \div 146096) \div 365
        doy == doe - (365 * yoe + yoe \div 4 - yoe \div 100)
        mp  == (5 * doy + 2) \div 153
        d   == doy - (153 * mp + 2) \div 5 + 1
        m   == IF mp < 10 THEN mp + 3 ELSE mp - 9
        y   == yoe + era * 400 + (IF m <= 2 THEN 1 ELSE 0)
    IN  [y |-> y, m |-> m, d |-> d]

\* datetime.strftime('%Y-%m-%d') of an instant
strftime_date(tick) ==
    LET c == civil_from_days(tick \div TicksPerDay)
    IN  ToDigits(c.y) \o <<"-">> \o TwoDigits(c.m) \o <<"-">> \o TwoDigits(c.d)

\* datetime.strftime('%Y-%m-%d %H:%M:%S') of an instant
strftime_time(tick) ==
    LET secs == ((tick % TicksPerDay) * 86400) \div TicksPerDay
    IN  strftime_date(tick) \o <<" ">> \o TwoDigits(secs \div 3600) \o <<":">>
            \o TwoDigits((secs % 3600) \div 60) \o <<":">> \o TwoDigits(secs % 60)

\* what extract_info returns for a readable receipt
ReceiptInfo(total_amount, merchant, date) ==
    [total_amount |-> total_amount, merchant |-> merchant, date |-> date,
     category |-> Str(<<"F","o","o","d">>), payment_method |-> Absent,
     notes |-> Str(<<"A","u","t","o","-","e","x","t","r","a","c","t","e","d"," ","f","r","o","m"," ","r","e","c","e","i","p","t">>)]

\* the text of a cell that append_row was given the value v for
cell_text(v) ==
    IF v.t = "str" THEN v.s
    ELSE IF v.t = "num" THEN number_cell(v.n)
    ELSE <<>>

\* add_expense without the fallback to today's date of lines 180-182
row_data_NoFallback(expense_data, clock) ==
    LET receipt_date == dict_get(expense_data, "date", Str(<<"N","o","t"," ","f","o","u","n","d">>))
    IN  << receipt_date.s,
           cell_text(dict_get(expense_data, "merchant", Str(<<"U","n","k","n","o","w","n">>))),
           cell_text(dict_get(expense_data, "total_amount", Num(0))),
           cell_text(dict_get(expense_data, "category", Str(<<"G","e","n","e","r","a","l">>))),
           cell_text(dict_get(expense_data, "payment_method", Str(<<"U","n","k","n","o","w","n">>))),
           cell_text(dict_get(expense_data, "notes", Str(<<>>))),
           receipt_date.s,
           strftime_time(clock) >>

\* lines 174-196 of sheets_manager.py: the row add_expense appends
row_data(expense_data, clock) ==
    LET receipt_date == dict_get(expense_data, "date", Str(<<"N","o","t"," ","f","o","u","n","d">>))
        not_found    == receipt_date.s \in {<<"N","o","t"," ","f","o","u","n","d">>, <<"D","a","t","e"," ","n","o","t"," ","f","o","u","n","d">>}
        display_date == IF not_found THEN strftime_date(clock) ELSE receipt_date.s
    IN  << display_date,
           cell_text(dict_get(expense_data, "merchant", Str(<<"U","n","k","n","o","w","n">>))),
           cell_text(dict_get(expense_data, "total_amount", Num(0))),
           cell_text(dict_get(expense_data, "category", Str(<<"G","e","n","e","r","a","l">>))),
           cell_text(dict_get(expense_data, "payment_method", Str(<<"U","n","k","n","o","w","n">>))),
           cell_text(dict_get(expense_data, "notes", Str(<<>>))),
           IF not_found THEN <<"N","o","t"," ","f","o","u","n","d"," ","o","n"," ","r","e","c","e","i","p","t">> ELSE receipt_date.s,
           strftime_time(clock) >>

\* what a call on the sheet leaves: what it returned and the rows of the sheet
Written(ok, rows) == [ok |-> ok, rows |-> rows]

\* lines 34-71 of sheets_manager.py: a sheet whose first row names none of
\* date, amount, store, merchant gets the expected headers inserted above it
fix_sheet_headers(rows) ==
    IF Len(rows) = 0 THEN Written(FALSE, rows)
    ELSE IF \E header \in {<<"d","a","t","e">>, <<"a","m","o","u","n","t">>, <<"s","t","o","r","e">>, <<"m","e","r","c","h","a","n","t">>} :
                \E i \in 1..Len(rows[1]) : contains(lower(rows[1][i]), header)
         THEN Written(TRUE, rows)
         ELSE Written(TRUE, <<DefaultHeaders>> \o rows)

\* lines 133-160 of sheets_manager.py
validate_sheet_structure(rows) ==
    IF /\ Len(rows) >= 1
       /\ \A req \in {<<"d","a","t","e">>, <<"a","m","o","u","n","t">>} :
              \E i \in 1..Len(rows[1]) : contains(lower(rows[1][i]), req)
    THEN Written(TRUE, rows)
    ELSE fix_sheet_headers(rows)

\* lines 162-211 of sheets_manager.py on a connected sheet
add_expense(rows, expense_data, clock) ==
    LET v == validate_sheet_structure(rows)
    IN  IF v.ok THEN Written(TRUE, Append(v.rows, row_data(expense_data, clock)))
        ELSE Written(FALSE, v.rows)

\* lines 105-131 of sheets_manager.py: conn says whether open_by_key opened
\* the spreadsheet or raised; the handle is assigned only after it opened
connect_to_existing_sheet(handle, sheets, sheet_id, conn) ==
    IF conn = "error"
    THEN [ok |-> FALSE, handle |-> handle, sheets |-> sheets]
    ELSE [ok |-> TRUE, handle |-> sheet_id,
          sheets |-> [sheets EXCEPT ![sheet_id] = fix_sheet_headers(@).rows]]

\* the rows behind the handle; no sheet, no rows
handle_rows(handle, sheets) == IF handle = "none" THEN <<>> ELSE sheets[handle]

\* sheets.add_expense on the shared handle (lines 165-167: no sheet, False)
handle_add_expense(handle, sheets, expense_data, clock) ==
    IF handle = "none" THEN [ok |-> FALSE, sheets |-> sheets]
    ELSE LET w == add_expense(sheets[handle], expense_data, clock)
         IN  [ok |-> w.ok, sheets |-> [sheets EXCEPT ![handle] = w.rows]]

\* the receipts the users photograph
BotReceipts ==
    { ReceiptInfo(Num(10000), Str(<<"J","o","l","l","i","b","e","e">>), Str(<<"D","a","t","e"," ","n","o","t"," ","f","o","u","n","d">>)),
      ReceiptInfo(Num(4550), Str(<<"S","h","e","l","l">>), Str(<<"2","0","2","4","-","0","3","-","0","5">>)) }

\* what the last handler did: the sheet its duplicate check read and the
\* sheet its add_expense wrote ("" when it made no such call)
Handled(op, user_id, message_id, checked, added) ==
    [op |-> op, user_id |-> user_id, message_id |-> message_id,
     checked |-> checked, added |-> added]

\* a photo message: who sent it, what was read from it, what the duplicate
\* check said, whether context.user_data holds it as pending, and the
\* handlers whose add_expense appended it
Message(user_id, receipt_info, is_duplicate, pending, saved_by) ==
    [user_id |-> user_id, receipt_info |-> receipt_info,
     is_duplicate |-> is_duplicate, pending |-> pending, saved_by |-> saved_by]

BotStart ==
    [handle |-> "none",
     sheets |-> [u \in Users |-> <<DefaultHeaders>>],
     msgs   |-> <<>>,
     last   |-> Handled("start", "", 0, "", "")]

InitBot ==
    /\ sheet = <<>>
    /\ now = StartTick
    /\ ret = Idle
    /\ bot = BotStart

\* handle_photo saving whatever the duplicate check said
save_now_Always(is_duplicate) == TRUE

\* line 212 of simple_bot.py, 'if is_duplicate:' with the save under else:
\* whether handle_photo saves the receipt itself
save_now(is_duplicate) == ~is_duplicate

\* no sheet of the model is full
Room == \A u \in Users : Len(bot.sheets[u]) <= MaxRows

\* handle_photo, lines 170-300 of simple_bot.py, for the photo of a readable
\* receipt sent by a user who has a sheet
handle_photo(user_id, receipt_info, conn) ==
    /\ Len(bot.msgs) < MaxMessages
    /\ Room
    /\ \E message_id \in {Len(bot.msgs) + 1},
          c \in {connect_to_existing_sheet(bot.handle, bot.sheets,
                                           user_sheets[user_id], conn)} :
       \E all_values \in {handle_rows(c.handle, c.sheets)} :
       \E out \in {detect_duplicates(all_values, receipt_info, now)},
          a \in {handle_add_expense(c.handle, c.sheets, receipt_info, now)} :
           IF ~save_now(out.is_duplicate)
           THEN bot' = [handle |-> c.handle, sheets |-> c.sheets,
                        msgs |-> Append(bot.msgs,
                                   Message(user_id, receipt_info, out.is_duplicate, TRUE, <<>>)),
                        last |-> Handled("handle_photo", user_id, message_id,
                                         c.handle, "")]
           ELSE bot' = [handle |-> c.handle, sheets |-> a.sheets,
                        msgs |-> Append(bot.msgs,
                                   Message(user_id, receipt_info, out.is_duplicate, FALSE,
                                           IF a.ok THEN <<"handle_photo">> ELSE <<>>)),
                        last |-> Handled("handle_photo", user_id, message_id,
                                         c.handle, c.handle)]
    /\ UNCHANGED <<sheet, now, ret>>

\* the callback force_save_<message_id>, lines 653-671 of simple_bot.py
force_save(user_id, message_id, conn) ==
    /\ message_id \in 1..Len(bot.msgs)
    /\ Room
    /\ \E m \in {bot.msgs[message_id]},
          c \in {connect_to_existing_sheet(bot.handle, bot.sheets,
                                           user_sheets[user_id], conn)} :
       \E a \in {handle_add_expense(c.handle, c.sheets, m.receipt_info, now)} :
           IF m.user_id = user_id /\ m.pending
           THEN bot' = [handle |-> c.handle, sheets |-> a.sheets,
                        msgs |-> [bot.msgs EXCEPT ![message_id].saved_by =
                                      IF a.ok THEN Append(@, "force_save") ELSE @],
                        last |-> Handled("force_save", user_id, message_id,
                                         "", c.handle)]
           ELSE bot' = [bot EXCEPT !.last =
                            Handled("force_save", user_id, message_id, "", "")]
    /\ UNCHANGED <<sheet, now, ret>>

\* the callback cancel_save, lines 673-675 of simple_bot.py
cancel_save(user_id) ==
    /\ bot' = [bot EXCEPT !.last = Handled("cancel_save", user_id, 0, "", "")]
    /\ UNCHANGED <<sheet, now, ret>>

NextBot ==
    \/ \E user_id \in Users, receipt_info \in BotReceipts, conn \in {"ok", "error"} :
           handle_photo(user_id, receipt_info, conn)
    \/ \E user_id \in Users, message_id \in 1..MaxMessages, conn \in {"ok", "error"} :
           force_save(user_id, message_id, conn)
    \/ \E user_id \in Users : cancel_save(user_id)

\* photos and callbacks of two users, one update at a time
SpecBot == InitBot /\ [][NextBot]_vars

(***************************************************************************)
(* A receipt is saved and sent again: add_expense on the connected sheet,  *)
(* then detect_duplicates for the same receipt.                            *)
(***************************************************************************)
\* the receipts saved: a total, a merchant, and the date find_date gave
SavedReceipts ==
    { ReceiptInfo(Num(total_amount), Str(<<"J","o","l","l","i","b","e","e">>), Str(date)) :
          total_amount \in {10000, 123456},
          date \in {<<"D","a","t","e"," ","n","o","t"," ","f","o","u","n","d">>, <<"2","0","2","4","-","0","3","-","0","5">>, <<"2","0","2","4","-","0","2","-","0","9">>,
                    <<"2","0","2","4","-","0","1","-","3","0">>, <<"2","0","2","4","-","0","4","-","0","1">>} }

\* the sheets connected: none yet written, the bot's own, one whose first
\* row is no header, and one laid out merchant, amount, category, date
InitSave ==
    /\ sheet \in { <<>>, <<DefaultHeaders>>, << << <<"f","o","o">>, <<"b","a","r">> >> >>,
                   << << <<"S","t","o","r","e","/","M","e","r","c","h","a","n","t">>, <<"A","m","o","u","n","t">>, <<"C","a","t","e","g","o","r","y">>, <<"D","a","t","e">> >> >> }
    /\ now = StartTick
    /\ ret = Idle
    /\ bot = NoBot

\* sheets.add_expense(expense_data); ret.out.text keeps what it returned
Save(expense_data) ==
    /\ ret.op = "idle"
    /\ Len(sheet) < MaxRows
    /\ LET w == add_expense(sheet, expense_data, now)
       IN  /\ sheet' = w.rows
           /\ ret' = [op |-> "add_expense", new_expense |-> expense_data,
                      df |-> NoneFrame,
                      out |-> [NoResult EXCEPT
                                  !.text = IF w.ok THEN "True" ELSE "False"]]
    /\ UNCHANGED <<now, bot>>

\* time passes between the save and the next photo
Elapse ==
    /\ ret.op = "add_expense"
    /\ now < StartTick + MaxClock
    /\ now' = now + 1
    /\ UNCHANGED <<sheet, ret, bot>>

\* the same receipt is sent again: analytics.detect_duplicates on the sheet
\* as the save left it; ret.out.text keeps what add_expense had returned
Resubmit ==
    /\ ret.op = "add_expense"
    /\ ret' = [op |-> "detect_duplicates_again", new_expense |-> ret.new_expense,
               df |-> NoneFrame,
               out |-> [detect_duplicates(sheet, ret.new_expense, now) EXCEPT
                           !.text = ret.out.text]]
    /\ UNCHANGED <<sheet, now, bot>>

NextSave ==
    \/ \E expense_data \in SavedReceipts : Save(expense_data)
    \/ Elapse
    \/ Resubmit
    \/ Return

\* receipts are saved and sent again
SpecSave == InitSave /\ [][NextSave]_vars

(***************************************************************************)
(* Records dated around the edge of the window and in the future.          *)
(***************************************************************************)
\* 30 days before the start of the clock, to the day
EdgeDate == <<"2","0","2","4","-","0","2","-","0","9">>

FutureDate == <<"2","0","2","4","-","0","4","-","0","1">>

WindowRows ==
    { DataRow(merchant, <<"1","0","0",".","0","0">>, date) :
          merchant \in {<<"J","o","l","l","i","b","e","e">>, <<"S","h","e","l","l">>},
          date \in {OldDate, EdgeDate, RecentDate, FutureDate, <<"2","0","2","5","-","0","1","-","0","1">>} }
        \cup { DataRow(<<"J","o","l","l","i","b","e","e">>, <<"1","0","0",".","0","0">>, <<"n","/","a">>) }

WindowReceipt == Receipt(Num(10000), Str(<<"J","o","l","l","i","b","e","e">>))

InitWindow ==
    /\ sheet = << << <<"S","t","o","r","e","/","M","e","r","c","h","a","n","t">>, <<"A","m","o","u","n","t">>, <<"C","a","t","e","g","o","r","y">>, <<"D","a","t","e">> >> >>
    /\ now = StartTick
    /\ ret = Idle
    /\ bot = NoBot

NextWindow ==
    \/ \E row \in WindowRows : AppendRow(row)
    \/ Tick
    \/ Detect(WindowReceipt)
    \/ Return

\* a receipt is checked against records of every age as time passes
SpecWindow == InitWindow /\ [][NextWindow]_vars

(***************************************************************************)
(* ExpenseAnalytics.get_budget_status.  A percentage is an integer number  *)
(* of hundredths of a percent, rounded down: 80 % is 8000.                 *)
(***************************************************************************)
OverBudget == 10000

ApproachingLimit == 8000

OnTrack == 6000

\* line 451: now.replace(day=1), the first of the month at the time of day
\* of the clock
current_month_start(clock) ==
    LET c == civil_from_days(clock \div TicksPerDay)
    IN  days_from_civil(c.y, c.m, 1) * TicksPerDay + (clock % TicksPerDay)

\* lines 448-464: the records of the current month, all the records when
\* the month has none or the frame has no dates
monthly_data(df, clock) ==
    IF <<"D","a","t","e">> \in SeqToSet(df.columns)
    THEN LET month == Filter(df, [i \in 1..Len(df.rows) |->
                          df.rows[i][<<"D","a","t","e">>].n >= current_month_start(clock)])
         IN  IF Len(month.rows) = 0 THEN df ELSE month
    ELSE df

RECURSIVE amount_sum(_)
\* monthly_data['Amount'].sum()
amount_sum(rows) ==
    IF Len(rows) = 0 THEN 0
    ELSE rows[1][<<"A","m","o","u","n","t">>].n + amount_sum(Tail(rows))

\* what a computation leaves: whether it raised, and its value
Computed(raised, value) == [raised |-> raised, value |-> value]

\* percentage_used dividing whatever the budget is
percentage_used_Unguarded(spent, monthly_budget) ==
    IF monthly_budget = 0 THEN Computed(TRUE, 0)
    ELSE Computed(FALSE, (spent * 10000) \div monthly_budget)

\* line 468: (spent / monthly_budget) * 100 if monthly_budget > 0 else 0
percentage_used(spent, monthly_budget) ==
    IF monthly_budget > 0 THEN Computed(FALSE, (spent * 10000) \div monthly_budget)
    ELSE Computed(FALSE, 0)

\* lines 473-480
budget_status_label(percentage) ==
    IF percentage >= OverBudget THEN "OVER BUDGET!"
    ELSE IF percentage >= ApproachingLimit THEN "Approaching Limit"
    ELSE IF percentage >= OnTrack THEN "On Track"
    ELSE "Under Budget"

\* the dict get_budget_status returns, or that it raised
BudgetStatus(raised, status, budget, spent, remaining, percentage) ==
    [raised |-> raised, status |-> status, budget |-> budget, spent |-> spent,
     remaining |-> remaining, percentage |-> percentage]

\* lines 434-488
get_budget_status(all_values, monthly_budget, clock) ==
    LET df == get_expenses_dataframe(all_values)
    IN  IF df.isNone \/ Len(df.rows) = 0 \/ <<"A","m","o","u","n","t">> \notin SeqToSet(df.columns)
        THEN BudgetStatus(FALSE, "No data yet", monthly_budget, 0, monthly_budget, 0)
        ELSE LET spent == amount_sum(monthly_data(df, clock).rows)
                 p     == percentage_used(spent, monthly_budget)
             IN  IF p.raised
                 THEN BudgetStatus(TRUE, "ZeroDivisionError", monthly_budget, spent,
                                   monthly_budget - spent, 0)
                 ELSE BudgetStatus(FALSE, budget_status_label(p.value), monthly_budget,
                                   spent, monthly_budget - spent, p.value)

\* the expenses of the budget checks
BudgetRows ==
    { DataRow(<<"S","h","e","l","l">>, amount, date) :
          amount \in {<<"6","0",".","0","0">>, <<"2","0",".","0","0">>, <<"1","0","0",".","0","0">>},
          date \in {RecentDate, OldDate, <<"2","0","2","4","-","0","3","-","0","1">>} }

\* the budgets, in centavos: budget_command takes any float
MonthlyBudgets == {-5000, 0, 10000, 20000}

InitBudget ==
    /\ sheet \in { <<>>, << << <<"S","t","o","r","e","/","M","e","r","c","h","a","n","t">>, <<"A","m","o","u","n","t">>, <<"C","a","t","e","g","o","r","y">>, <<"D","a","t","e">> >> >> }
    /\ now = StartTick
    /\ ret = Idle
    /\ bot = NoBot

\* analytics.get_budget_status(monthly_budget); ret.df keeps the frame the
\* call loaded
GetBudgetStatus(monthly_budget) ==
    /\ ret.op = "idle"
    /\ ret' = [op |-> "get_budget_status", new_expense |-> NoReceipt,
               df |-> get_expenses_dataframe(sheet),
               out |-> get_budget_status(sheet, monthly_budget, now)]
    /\ UNCHANGED <<sheet, now, bot>>

NextBudget ==
    \/ \E row \in BudgetRows : AppendRow(row)
    \/ Tick
    \/ \E monthly_budget \in MonthlyBudgets : GetBudgetStatus(monthly_budget)
    \/ Return

\* the budget status is asked for as expenses are added
SpecBudget == InitBudget /\ [][NextBudget]_vars

(***************************************************************************)
(* BudgetManager of budget_manager.py for one user: the total budget and   *)
(* the budget of one category, set by /budget, and check_budget_alerts.    *)
(* An amount is in centavos; Absent stands for a key that is not there.    *)
(***************************************************************************)
AlertAt == 9000

WarningAt == 7500

\* the amounts /budget accepts: float() of any number, 0 included
BudgetAmounts == {0, 10000, 20000}

\* current_spending: the total and the category 'food', each there or not
Spendings ==
    { [total |-> t, food |-> f] :
          t \in {Absent, Num(0), Num(5000), Num(7500), Num(9000)},
          f \in {Absent, Num(0), Num(15000)} }

\* lines 86-89 and 99-102: what a percentage calls for
alert_kind(percentage) ==
    IF percentage >= AlertAt THEN "alert"
    ELSE IF percentage >= WarningAt THEN "warning"
    ELSE "none"

\* lines 84 and 97: (spent / budget_amount) * 100, amounts not negative
spent_percentage(spent, budget_amount) ==
    IF budget_amount = 0 THEN Computed(TRUE, 0)
    ELSE Computed(FALSE, (spent * 10000) \div budget_amount)

\* lines 74-104: the alerts, by what they are about and their kind, or that
\* the call raised ZeroDivisionError
check_budget_alerts(user_budgets, current_spending) ==
    LET total_checked == /\ user_budgets.total # Absent
                         /\ dict_get(current_spending, "total", Num(0)).n > 0
        total_p == IF total_checked
                   THEN spent_percentage(current_spending.total.n, user_budgets.total.n)
                   ELSE Computed(FALSE, 0)
        food_checked == /\ user_budgets.food # Absent
                        /\ current_spending.food # Absent
        food_p == IF food_checked
                  THEN spent_percentage(current_spending.food.n, user_budgets.food.n)
                  ELSE Computed(FALSE, 0)
        alerts == (IF alert_kind(total_p.value) # "none"
                   THEN <<[about |-> "total", kind |-> alert_kind(total_p.value)]>>
                   ELSE <<>>)
                  \o (IF alert_kind(food_p.value) # "none"
                      THEN <<[about |-> "food", kind |-> alert_kind(food_p.value)]>>
                      ELSE <<>>)
    IN  IF total_p.raised \/ food_p.raised
        THEN [raised |-> TRUE, alerts |-> <<>>, current_spending |-> current_spending]
        ELSE [raised |-> FALSE, alerts |-> alerts, current_spending |-> current_spending]

\* no budget has been set
InitAlerts ==
    /\ sheet = <<>>
    /\ now = StartTick
    /\ ret = Idle
    /\ bot = [total |-> Absent, food |-> Absent]

\* /budget <amount>: lines 824-827 of simple_bot.py, set_total_budget
SetTotalBudget(amount) ==
    /\ ret.op = "idle"
    /\ bot' = [bot EXCEPT !.total = Num(amount)]
    /\ UNCHANGED <<sheet, now, ret>>

\* /budget food <amount>: lines 833-837 of simple_bot.py, set_budget
SetBudget(amount) ==
    /\ ret.op = "idle"
    /\ bot' = [bot EXCEPT !.food = Num(amount)]
    /\ UNCHANGED <<sheet, now, ret>>

\* budget_manager.check_budget_alerts(user_id, current_spending)
CheckBudgetAlerts(current_spending) ==
    /\ ret.op = "idle"
    /\ ret' = [op |-> "check_budget_alerts", new_expense |-> NoReceipt,
               df |-> NoneFrame,
               out |-> check_budget_alerts(bot, current_spending)]
    /\ UNCHANGED <<sheet, now, bot>>

NextAlerts ==
    \/ \E amount \in BudgetAmounts : SetTotalBudget(amount)
    \/ \E amount \in BudgetAmounts : SetBudget(amount)
    \/ \E current_spending \in Spendings : CheckBudgetAlerts(current_spending)
    \/ Return

\* budgets are set and the alerts are asked for
SpecAlerts == InitAlerts /\ [][NextAlerts]_vars

(***************************************************************************)
(* Properties.  They are stated over the state in which a call has         *)
(* returned: the sheet and the clock are those the call ran on.            *)
(***************************************************************************)
\* detect_duplicates was called and returned a pair
DetectReturned == ret.op = "detect_duplicates" /\ ~ret.out.raised

\* the amount and the normalized merchant of the receipt checked
CandAmount == dict_get(ret.new_expense, "total_amount", Num(0)).n

CandMerchant ==
    strip(lower(dict_get(ret.new_expense, "merchant", Str(<<>>)).s))

\* the records the call loaded, and those it compared with the receipt
FrameRows == IF ret.out.df.isNone THEN <<>> ELSE ret.out.df.rows

Compared == ret.out.recent_expenses

Found == ret.out.duplicates_found

\* the normalized merchant of a record, '' when the table has no merchant column
RecordMerchant(r) ==
    IF <<"S","t","o","r","e","/","M","e","r","c","h","a","n","t">> \in DOMAIN r
    THEN strip(lower(r[<<"S","t","o","r","e","/","M","e","r","c","h","a","n","t">>].s))
    ELSE <<>>

Similarity(r) ==
    IF CandMerchant = <<>> \/ RecordMerchant(r) = <<>> THEN 0
    ELSE fuzz_ratio(RecordMerchant(r), CandMerchant)

AmountDiff(r) == Abs(r[<<"A","m","o","u","n","t">>].n - CandAmount)

\* the rule table of the specification, first match deciding
RuleTable(r) ==
    LET diff == AmountDiff(r)
        sim  == Similarity(r)
    IN  CASE diff = 0 /\ sim >= 70
               -> "Exact amount + similar merchant"
          [] ~(diff = 0 /\ sim >= 70) /\ diff <= 200 /\ sim >= 85
               -> "Very close amount + very similar merchant"
          [] ~(diff = 0 /\ sim >= 70) /\ ~(diff <= 200 /\ sim >= 85)
             /\ diff = 0 /\ (CandMerchant = <<>> \/ RecordMerchant(r) = <<>>)
               -> "Exact amount (merchant info missing)"
          [] OTHER -> ""

Qualifying == SelectSeq(Compared, LAMBDA r : RuleTable(r) # "")

\* C1: every record get_expenses_dataframe returns has a numeric Amount > 0:
\* no record with a missing, non-numeric, zero or negative amount is returned.
C1_AmountPositive ==
    (ret.op = "get_expenses_dataframe" /\ ~ret.df.isNone) =>
        \A i \in 1..Len(ret.df.rows) :
            /\ ret.df.rows[i][<<"A","m","o","u","n","t">>].t = "num"
            /\ ret.df.rows[i][<<"A","m","o","u","n","t">>].n > 0

\* a load that kept one record and dropped a row with a negative amount
C1_Witness ==
    /\ ret.op = "get_expenses_dataframe"
    /\ ~ret.df.isNone
    /\ Len(ret.df.rows) = 1
    /\ \E i \in 2..Len(sheet) : sheet[i] = DataRow(<<"S","h","e","l","l">>, <<"-","5",".","0","0">>, RecentDate)

\* C2: for every record compared, the verdict and the label are those of the
\* ordered rule table, and the call returns is_duplicate = true iff at least
\* one compared record qualifies under the table.
C2_RuleTable ==
    DetectReturned =>
        /\ ret.out.is_duplicate = (Len(Qualifying) > 0)
        /\ Len(Found) = Len(Qualifying)
        /\ \A k \in 1..Len(Qualifying) :
               /\ Found[k].reason = RuleTable(Qualifying[k])
               /\ Found[k].amount = Qualifying[k][<<"A","m","o","u","n","t">>].n
               /\ Found[k].similarity = Similarity(Qualifying[k])

\* two records compared: one qualifies by the close-amount rule, one does not
C2_Witness ==
    /\ DetectReturned
    /\ Len(Compared) = 2
    /\ Len(Found) = 1
    /\ Found[1].reason = "Very close amount + very similar merchant"

\* C3: detect_duplicates never raises, whatever the receipt (a total_amount
\* of None included) and whatever the sheet.
C3_NeverRaises == ret.op = "detect_duplicates" => ~ret.out.raised

\* C4: when the records carry dates, a record dated before now - 30 days
\* never contributes to a verdict: every match found is dated within the
\* window, and the verdict is that of the records within the window.
C4_OldRecordsExcluded ==
    DetectReturned =>
        /\ \A k \in 1..Len(Found) :
               Found[k].date.t = "ts" =>
                   Found[k].date.n >= now - 30 * TicksPerDay
        /\ (\A i \in 1..Len(FrameRows) : <<"D","a","t","e">> \in DOMAIN FrameRows[i]) =>
               (ret.out.is_duplicate <=>
                   \E i \in 1..Len(FrameRows) :
                       /\ FrameRows[i][<<"D","a","t","e">>].n >= now - 30 * TicksPerDay
                       /\ RuleTable(FrameRows[i]) # "")

\* a record dated 40 days ago that would qualify, and the verdict is false
C4_Witness ==
    /\ DetectReturned
    /\ ~ret.out.is_duplicate
    /\ \E i \in 1..Len(FrameRows) :
           /\ FrameRows[i][<<"D","a","t","e">>].n = now - 40 * TicksPerDay
           /\ RuleTable(FrameRows[i]) # ""

\* the sheet has no date column at all: no header label holds 'date' and no
\* cell under the header is a date
NoDateColumn ==
    /\ Len(sheet) >= 1
    /\ \A c \in 1..Len(sheet[1]) : ~contains(lower(sheet[1][c]), <<"d","a","t","e">>)
    /\ \A i \in 2..Len(sheet) :
           \A c \in 1..Len(sheet[i]) :
               c <= Len(sheet[1]) => str_to_datetime(sheet[i][c]) = NaT

\* C5: when the table has no date column at all, the receipt is compared
\* with exactly the last 20 records in load order: the verdict is true iff
\* one of them qualifies.
C5_LastTwentyCompared ==
    (DetectReturned /\ NoDateColumn) =>
        LET n      == Len(FrameRows)
            last20 == SubSeq(FrameRows, IF n > 20 THEN n - 19 ELSE 1, n)
        IN  ret.out.is_duplicate <=>
                \E i \in 1..Len(last20) : RuleTable(last20[i]) # ""

\* a compared record with the amount of the receipt and, after lower-casing
\* and trimming, its merchant
SameAfterNormalizing(r) ==
    r[<<"A","m","o","u","n","t">>].n = CandAmount /\ RecordMerchant(r) = CandMerchant

\* C6 as stated: equal amounts and merchants equal after lower-casing and
\* trimming give is_duplicate = true with the reported reason 'Exact amount
\* + similar merchant'.
C6_AsStated ==
    DetectReturned =>
        \A i \in 1..Len(Compared) :
            SameAfterNormalizing(Compared[i]) =>
                /\ ret.out.is_duplicate
                /\ ret.out.best_match.reason = "Exact amount + similar merchant"

\* C6, amended: equal amounts and non-empty merchants equal after
\* lower-casing and trimming give is_duplicate = true, and the record is
\* among the matches with similarity 100 and reason 'Exact amount + similar
\* merchant'; the reason reported is that of the first match of similarity
\* 100, which is this reason unless that match has another, close amount.
C6_NormalizedMerchantMatch ==
    DetectReturned =>
        \A i \in 1..Len(Compared) :
            (SameAfterNormalizing(Compared[i]) /\ CandMerchant # <<>>) =>
                /\ ret.out.is_duplicate
                /\ \E k \in 1..Len(Found) :
                       /\ Found[k].amount = CandAmount
                       /\ Found[k].merchant = CandMerchant
                       /\ Found[k].similarity = 100
                       /\ Found[k].reason = "Exact amount + similar merchant"
                /\ ret.out.best_match.similarity = 100
                /\ \/ ret.out.best_match.reason = "Exact amount + similar merchant"
                   \/ /\ ret.out.best_match.reason
                            = "Very close amount + very similar merchant"
                      /\ ret.out.best_match.amount # CandAmount
                      /\ \E k \in 1..Len(Found) :
                             /\ ret.out.best_match = Found[k]
                             /\ \A j \in 1..(k-1) : Found[j].similarity < 100

\* 'Jollibee' on the receipt, 'jollibee ' in the sheet, the same amount
C6_Witness ==
    /\ DetectReturned
    /\ ret.new_expense.merchant = Str(<<"J","o","l","l","i","b","e","e">>)
    /\ ret.out.is_duplicate
    /\ ret.out.best_match.reason = "Exact amount + similar merchant"
    /\ \E i \in 1..Len(Compared) :
           /\ Compared[i][<<"S","t","o","r","e","/","M","e","r","c","h","a","n","t">>].s = <<"j","o","l","l","i","b","e","e"," ">>
           /\ Compared[i][<<"A","m","o","u","n","t">>].n = CandAmount

\* C7: a record whose amount differs from the receipt's by more than 2.0 is
\* never a match, identical merchants or not; if every compared record
\* differs by more than 2.0 the verdict is false.
C7_FarAmountNeverDuplicate ==
    DetectReturned =>
        /\ \A k \in 1..Len(Found) : Abs(Found[k].amount - CandAmount) <= 200
        /\ Len(Found) <= Len(SelectSeq(Compared, LAMBDA r : AmountDiff(r) <= 200))
        /\ (\A i \in 1..Len(Compared) : AmountDiff(Compared[i]) > 200) =>
               ~ret.out.is_duplicate

\* the same merchant, amounts more than 2.0 apart, and the verdict is false
C7_Witness ==
    /\ DetectReturned
    /\ ~ret.out.is_duplicate
    /\ \E i \in 1..Len(Compared) :
           /\ AmountDiff(Compared[i]) > 200
           /\ CandMerchant # <<>>
           /\ RecordMerchant(Compared[i]) = CandMerchant

\* C8: when the receipt's or the record's merchant is empty after trimming,
\* the similarity is 0 and the pair is a match iff the amounts are equal,
\* with reason 'Exact amount (merchant info missing)'; a close amount with a
\* missing merchant is never a match.
C8_MissingMerchant ==
    DetectReturned =>
        LET expected == SelectSeq(Compared, LAMBDA r :
                            /\ CandMerchant = <<>> \/ RecordMerchant(r) = <<>>
                            /\ r[<<"A","m","o","u","n","t">>].n = CandAmount)
            got      == SelectSeq(Found, LAMBDA d :
                            CandMerchant = <<>> \/ d.merchant = <<"U","n","k","n","o","w","n">>)
        IN  /\ Len(got) = Len(expected)
            /\ \A k \in 1..Len(got) :
                   /\ got[k].reason = "Exact amount (merchant info missing)"
                   /\ got[k].similarity = 0
                   /\ got[k].amount = CandAmount

\* a receipt without merchant against two records: the one of equal amount
\* is a match, the one 1.50 away is not
C8_Witness ==
    /\ DetectReturned
    /\ CandMerchant = <<>>
    /\ Len(Compared) = 2
    /\ Len(Found) = 1
    /\ \E i \in 1..2 : AmountDiff(Compared[i]) = 150

\* C9: the best match reported is a match of the highest similarity among
\* the matches, and among those the first in scan order.
C9_BestMatchFirstHighest ==
    (DetectReturned /\ ret.out.is_duplicate) =>
        \E i \in 1..Len(Found) :
            /\ ret.out.best_match = Found[i]
            /\ \A j \in 1..Len(Found) : Found[j].similarity <= Found[i].similarity
            /\ \A j \in 1..(i-1) : Found[j].similarity < Found[i].similarity

\* two different matches tied for the highest similarity: the first is reported
C9_Witness ==
    /\ DetectReturned
    /\ Len(Found) = 2
    /\ Found[1].similarity = Found[2].similarity
    /\ Found[1] # Found[2]
    /\ ret.out.best_match = Found[1]

\* C10 as stated: a duplicate verdict with N >= 1 qualifying records
\* reports the count N.
C10_AsStated ==
    (DetectReturned /\ ret.out.is_duplicate) => ret.out.note = Len(Qualifying)

\* C10, amended: a duplicate verdict with N >= 2 qualifying records reports
\* the count N ("Found N similar receipts"); with N = 1 the message carries
\* no count.
C10_CountReported ==
    (DetectReturned /\ ret.out.is_duplicate) =>
        /\ Len(Qualifying) >= 2 => ret.out.note = Len(Qualifying)
        /\ Len(Qualifying) = 1 => ret.out.note = 0

\* two qualifying records, and the count 2 is reported
C10_Witness ==
    /\ DetectReturned
    /\ ret.out.is_duplicate
    /\ Len(Qualifying) = 2
    /\ ret.out.note = 2

(***************************************************************************)
(* Properties of the loader on a sheet of any shape (SpecStore).           *)
(***************************************************************************)
\* the canonical header list of the specification
Canonical ==
    << <<"D","a","t","e">>, <<"S","t","o","r","e","/","M","e","r","c","h","a","n","t">>, <<"A","m","o","u","n","t">>, <<"C","a","t","e","g","o","r","y">>, <<"P","a","y","m","e","n","t"," ","M","e","t","h","o","d">>,
       <<"N","o","t","e","s">>, <<"R","e","c","e","i","p","t"," ","D","a","t","e">>, <<"A","d","d","e","d"," ","D","a","t","e">> >>

\* a row that qualifies as a header: at least 3 cells, and a cell whose
\* lower-cased text holds one of the five tokens
Qualifies(row) ==
    /\ Len(row) >= 3
    /\ \E c \in 1..Len(row) :
           \E token \in {<<"d","a","t","e">>, <<"a","m","o","u","n","t">>, <<"s","t","o","r","e">>, <<"m","e","r","c","h","a","n","t">>, <<"c","a","t","e","g","o","r","y">>} :
               contains(lower(row[c]), token)

\* the first qualifying row of the sheet from the top, 0 when there is none
HeaderAt ==
    IF \E i \in 1..Len(sheet) : Qualifies(sheet[i])
    THEN CHOOSE i \in 1..Len(sheet) :
             Qualifies(sheet[i]) /\ \A j \in 1..(i-1) : ~Qualifies(sheet[j])
    ELSE 0

\* the cell of row i under the c-th label, '' when the row is shorter
Cell(i, c) == IF c <= Len(sheet[i]) THEN sheet[i][c] ELSE <<>>

\* a load whose read of the sheet succeeded has returned
LoadReturned == ret.op = "get_expenses_dataframe" /\ ret.out.text = "ok"

\* the records returned, none when the result is None
Loaded == IF ret.df.isNone THEN <<>> ELSE ret.df.rows

\* record r is row i of the sheet read against the labels: under every
\* label it has the cell, normalized where the label is Amount or Date
Matches(r, i, labels) ==
    \A c \in 1..Len(labels) :
        /\ labels[c] \in DOMAIN r
        /\ \/ r[labels[c]] = Str(Cell(i, c))
           \/ /\ labels[c] = <<"A","m","o","u","n","t">>
              /\ r[labels[c]] = to_numeric(clean_amount(Cell(i, c)))
           \/ /\ labels[c] = <<"D","a","t","e">>
              /\ r[labels[c]] = str_to_datetime(Cell(i, c))

\* row i has a positive amount in column ac and a date in column dc
ValidRow(i, ac, dc) ==
    /\ to_numeric(clean_amount(Cell(i, ac))).t = "num"
    /\ to_numeric(clean_amount(Cell(i, ac))).n > 0
    /\ str_to_datetime(Cell(i, dc)).t = "ts"

\* the example of the specification
HeaderSkipExample ==
    << << <<"f","o","o">>, <<"b","a","r">> >>, << <<"D","a","t","e">>, <<"A","m","o","u","n","t">>, <<"C","a","t","e","g","o","r","y">> >>,
       << <<"2","0","2","4","-","0","1","-","0","1">>, <<"1","2",".","5","0">>, <<"F","o","o","d">> >> >>

\* C11: the first row from the top with at least 3 cells and a header token
\* is the header: every record carries its labels and is a row after it, the
\* rows before it give no record, and under Date, Amount, Category every
\* later row with a positive amount and a date gives one; the example yields
\* exactly one record, amount 12.50 and category Food.
C11_HeaderDiscovery ==
    LoadReturned =>
        LET h == HeaderAt
        IN
        h > 0 =>
        /\ \A k \in 1..Len(Loaded) :
               \E i \in (h + 1)..Len(sheet) : Matches(Loaded[k], i, sheet[h])
        /\ sheet[h] = << <<"D","a","t","e">>, <<"A","m","o","u","n","t">>, <<"C","a","t","e","g","o","r","y">> >> =>
               Len(Loaded) = Cardinality({i \in (h + 1)..Len(sheet) :
                                              ValidRow(i, 2, 1)})
        /\ sheet = HeaderSkipExample =>
               /\ Len(Loaded) = 1
               /\ Loaded[1][<<"A","m","o","u","n","t">>] = Num(1250)
               /\ Loaded[1][<<"C","a","t","e","g","o","r","y">>] = Str(<<"F","o","o","d">>)

\* the example is loaded and gives its record
C11_Witness ==
    /\ LoadReturned
    /\ sheet = HeaderSkipExample
    /\ HeaderAt = 2
    /\ Len(Loaded) = 1

\* C12: when no row qualifies as a header, the canonical headers are used
\* and every row, the first included, is data read by position (cell 0 the
\* date, cell 1 the merchant, cell 2 the amount, cell 3 the category); the
\* fallback does not make the load fail: every row with a positive amount
\* and a date gives a record.
C12_CanonicalFallback ==
    (LoadReturned /\ HeaderAt = 0) =>
        /\ \A k \in 1..Len(Loaded) :
               \E i \in 1..Len(sheet) :
                   /\ Matches(Loaded[k], i, Canonical)
                   /\ Loaded[k][<<"D","a","t","e">>] = str_to_datetime(Cell(i, 1))
                   /\ Loaded[k][<<"S","t","o","r","e","/","M","e","r","c","h","a","n","t">>] = Str(Cell(i, 2))
                   /\ Loaded[k][<<"A","m","o","u","n","t">>] = to_numeric(clean_amount(Cell(i, 3)))
                   /\ Loaded[k][<<"C","a","t","e","g","o","r","y">>] = Str(Cell(i, 4))
        /\ Len(Loaded) = Cardinality({i \in 1..Len(sheet) : ValidRow(i, 3, 1)})
        /\ (Len(sheet) >= 1 /\ ValidRow(1, 3, 1)) =>
               (Len(Loaded) >= 1 /\ Matches(Loaded[1], 1, Canonical))

\* a sheet without header whose first row is a valid positional row, loaded
\* to a record of that row, with a second row that is no header either
C12_Witness ==
    /\ LoadReturned
    /\ HeaderAt = 0
    /\ Len(sheet) = 2
    /\ sheet[2] = << <<"D","a","t","e">>, <<"A","m","o","u","n","t">> >>
    /\ Len(Loaded) = 1
    /\ Loaded[1][<<"S","t","o","r","e","/","M","e","r","c","h","a","n","t">>] = Str(<<"S","h","e","l","l">>)
    /\ Loaded[1][<<"A","m","o","u","n","t">>] = Num(10000)

\* C13: if no header label holds 'amount' and no cell of any data row under
\* the header is numeric-coercible, the load returns None.
C13_MandatoryAmount ==
    LoadReturned =>
        LET h      == HeaderAt
            labels == IF h = 0 THEN Canonical ELSE sheet[h]
        IN  ( /\ \A c \in 1..Len(labels) : ~contains(lower(labels[c]), <<"a","m","o","u","n","t">>)
              /\ \A i \in (h + 1)..Len(sheet) :
                     \A c \in 1..Len(labels) : to_numeric(Cell(i, c)).t # "num" )
            => ret.df.isNone

\* a header without an amount label over a row whose only amount-like cell
\* is 'P100.00', not numeric as it stands: the load returns None
C13_Witness ==
    /\ LoadReturned
    /\ sheet = << << <<"D","a","t","e">>, <<"T","o","t","a","l">>, <<"C","a","t","e","g","o","r","y">> >>,
                  << <<"2","0","2","4","-","0","3","-","0","5">>, <<"S","h","e","l","l">>, <<"P","1","0","0",".","0","0">>, <<"F","u","e","l">> >> >>
    /\ ret.df.isNone

\* C14: the loader never raises: whatever the rows (none, shorter or longer
\* than the header, with amounts or dates that do not parse) and however the
\* read goes, the call returns records or None; an empty sheet gives None.
C14_LoaderNeverRaises ==
    ret.op = "get_expenses_dataframe" =>
        /\ ~ret.out.raised
        /\ ret.df.isNone \/ Len(ret.df.rows) > 0
        /\ sheet = <<>> => ret.df.isNone
        /\ ret.out.text # "ok" => ret.df.isNone

\* the read of a sheet of three rows failed, and the call returned None
C14_Witness ==
    /\ ret.op = "get_expenses_dataframe"
    /\ ret.out.text = "error"
    /\ Len(sheet) = 3
    /\ \E i \in 1..3 : Len(sheet[i]) = 5
    /\ \E i \in 1..3 : sheet[i][1] = <<"s","o","m","e","d","a","y">>
    /\ ~ret.out.raised
    /\ ret.df.isNone

C16_SourceOrder ==
    LoadReturned =>
        LET h      == HeaderAt
            labels == IF h = 0 THEN Canonical ELSE sheet[h]
            n      == Len(Loaded)
        IN  \E f \in [1..n -> (h + 1)..Len(sheet)] :
                /\ \A k \in 1..n : Matches(Loaded[k], f[k], labels)
                /\ \A k \in 1..(n - 1) : f[k] < f[k + 1]

\* three rows without header, the second dropped: the records are the first
\* row and then the third
C16_Witness ==
    /\ LoadReturned
    /\ HeaderAt = 0
    /\ Len(sheet) = 3
    /\ ~ValidRow(2, 3, 1)
    /\ Len(Loaded) = 2
    /\ Loaded[1] # Loaded[2]
    /\ Matches(Loaded[1], 1, Canonical)
    /\ Matches(Loaded[2], 3, Canonical)

(***************************************************************************)
(* The date-drop policy (SpecLoad).                                        *)
(***************************************************************************)
\* the header of the sheet has a date label (line 122)
DateLabelled ==
    /\ Len(sheet) >= 1
    /\ \E c \in 1..Len(sheet[1]) :
           /\ contains(lower(sheet[1][c]), <<"d","a","t","e">>)
           /\ ~contains(lower(sheet[1][c]), <<"a","d","d","e","d">>)
           /\ ~contains(lower(sheet[1][c]), <<"r","e","c","e","i","p","t">>)

\* the position of the header's first date label
DatePosition ==
    CHOOSE c \in 1..Len(sheet[1]) :
        /\ contains(lower(sheet[1][c]), <<"d","a","t","e">>)
        /\ \A b \in 1..(c - 1) : ~contains(lower(sheet[1][b]), <<"d","a","t","e">>)

\* with a date column, every record has a parsed date and a row whose date
\* is missing or does not parse gives no record
DatedRowsOnly ==
    (ret.op = "get_expenses_dataframe" /\ DateLabelled) =>
        /\ \A k \in 1..Len(Loaded) :
               /\ <<"D","a","t","e">> \in DOMAIN Loaded[k]
               /\ Loaded[k][<<"D","a","t","e">>].t = "ts"
               /\ \E i \in 2..Len(sheet) :
                      Loaded[k][<<"D","a","t","e">>] = str_to_datetime(Cell(i, DatePosition))
        /\ Len(Loaded) <= Cardinality({i \in 2..Len(sheet) :
                              str_to_datetime(Cell(i, DatePosition)).t = "ts"})

\* with no date column at all, every row with a positive amount is returned,
\* and the records are dateless
DatelessRowsKept ==
    (ret.op = "get_expenses_dataframe" /\ NoDateColumn) =>
        /\ Len(Loaded) = Cardinality({i \in 2..Len(sheet) :
                              /\ to_numeric(clean_amount(Cell(i, 2))).t = "num"
                              /\ to_numeric(clean_amount(Cell(i, 2))).n > 0})
        /\ \A k \in 1..Len(Loaded) : <<"D","a","t","e">> \notin DOMAIN Loaded[k]

\* C17: the date-drop policy: with a date column every record has a parsed
\* date and rows without one are dropped; with no date column at all no row
\* is dropped for its date and every row with a positive amount is returned
\* dateless.
C17_DateDropPolicy == DatedRowsOnly /\ DatelessRowsKept

(***************************************************************************)
(* The store is only read.                                                 *)
(***************************************************************************)
\* a call of get_expenses_dataframe or of detect_duplicates was made and
\* has returned in this step
CallStep ==
    /\ ret.op \in {"idle", "get_expenses_dataframe"}
    /\ ret'.op \in {"get_expenses_dataframe", "get_expenses_dataframe_again",
                    "detect_duplicates"}
    /\ ret'.op # ret.op

\* C18: get_expenses_dataframe and detect_duplicates only read the sheet:
\* across every call of either the rows of the sheet are unchanged.
C18_StoreOnlyRead == [][CallStep => sheet' = sheet]_vars

\* a load, a second load and a check have each returned on a sheet of rows
C18_Witness ==
    /\ ret.op = "detect_duplicates"
    /\ Len(sheet) = 3
    /\ ~ret.out.df.isNone
    /\ Len(ret.out.df.rows) = 2

(***************************************************************************)
(* Amount normalization (SpecAmount).                                      *)
(***************************************************************************)
\* C19: a positive decimal written with thousands separators or behind one
\* of the markers peso sign, 'PHP', 'P', '$' normalizes to the value of the
\* plain decimal; the peso sign before '1,234.50' gives 1234.50.
C19_CurrencyStripping ==
    ret.op = "get_expenses_dataframe" =>
        /\ \A m \in Markers, d \in Decimals :
               sheet[2][2] \in {m \o d.text, m \o d.grouped} =>
                   /\ Len(Loaded) = 1
                   /\ Loaded[1][<<"A","m","o","u","n","t">>] = Num(d.cents)
                   /\ Loaded[1][<<"A","m","o","u","n","t">>] = to_numeric(d.text)
        /\ sheet[2][2] = <<"PESO","1",",","2","3","4",".","5","0">> =>
               (Len(Loaded) = 1 /\ Loaded[1][<<"A","m","o","u","n","t">>] = Num(123450))

\* the cell of the example, loaded to 1234.50
C19_Witness ==
    /\ ret.op = "get_expenses_dataframe"
    /\ sheet[2][2] = <<"PESO","1",",","2","3","4",".","5","0">>
    /\ Len(Loaded) = 1
    /\ Loaded[1][<<"A","m","o","u","n","t">>] = Num(123450)

(***************************************************************************)
(* The amount of the candidate (SpecCandidate).                            *)
(***************************************************************************)
\* the amount the candidate was supplied with, under either key
SuppliedAmount ==
    IF "amount" \in DOMAIN ret.new_expense
    THEN ret.new_expense.amount.n
    ELSE ret.new_expense.total_amount.n

\* the amount under the key 'total_amount', 0 when the candidate has none
TotalAmount ==
    IF ret.new_expense.total_amount.t = "num"
    THEN ret.new_expense.total_amount.n ELSE 0

PhotoStep == Len(bot'.msgs) = Len(bot.msgs) + 1

\* the sheets are as they were but for one row appended to the sheet id
AppendedTo(id, row) ==
    bot'.sheets = [bot.sheets EXCEPT ![id] = Append(@, row)]

\* C21: handle_photo leaves the sheets alone for a receipt the duplicate
\* check flagged and appends the row of a receipt it did not flag in the
\* same step (to the connected sheet); a cancel_save callback appends
\* nothing; and any other change of a sheet is a force_save callback
\* appending the row of the flagged receipt whose message id it carries.
C21_SaveFlowGate ==
    [][ IF PhotoStep
        THEN LET m == bot'.msgs[Len(bot'.msgs)]
             IN  IF m.is_duplicate THEN bot'.sheets = bot.sheets
                 ELSE \/ bot'.handle = "none" /\ bot'.sheets = bot.sheets
                      \/ /\ bot'.handle # "none"
                         /\ AppendedTo(bot'.handle, row_data(m.receipt_info, now))
        ELSE /\ bot'.last.op = "cancel_save" => bot'.sheets = bot.sheets
             /\ bot'.sheets # bot.sheets =>
                    /\ bot'.last.op = "force_save"
                    /\ bot.msgs[bot'.last.message_id].is_duplicate
                    /\ AppendedTo(bot'.handle,
                           row_data(bot.msgs[bot'.last.message_id].receipt_info, now))
      ]_vars

\* a flagged receipt was saved by a force_save, another was saved at once,
\* and a cancel_save has just been handled
C21_Witness ==
    /\ \E i \in 1..Len(bot.msgs) :
           bot.msgs[i].is_duplicate /\ bot.msgs[i].saved_by = <<"force_save">>
    /\ \E i \in 1..Len(bot.msgs) :
           ~bot.msgs[i].is_duplicate /\ bot.msgs[i].saved_by = <<"handle_photo">>
    /\ bot.last.op = "cancel_save"

(***************************************************************************)
(* The roles of the columns and the assembly of the records (SpecRoles).   *)
(***************************************************************************)
\* the first position of labels whose label holds 'amount', 0 if none
AmountNamed(labels) ==
    LET P == {c \in 1..Len(labels) : contains(lower(labels[c]), <<"a","m","o","u","n","t">>)}
    IN  IF P = {} THEN 0 ELSE CHOOSE c \in P : \A b \in P : c <= b

\* the first position under which a row below row h has a numeric cell,
\* 0 if none
NumericFirst(labels, h) ==
    LET P == {c \in 1..Len(labels) :
                 \E i \in (h + 1)..Len(sheet) : to_numeric(Cell(i, c)).t = "num"}
    IN  IF P = {} THEN 0 ELSE CHOOSE c \in P : \A b \in P : c <= b

\* the first position of labels whose label holds 'date' and neither 'added'
\* nor 'receipt', 0 if none
DateNamed(labels) ==
    LET P == {c \in 1..Len(labels) :
                 /\ contains(lower(labels[c]), <<"d","a","t","e">>)
                 /\ ~contains(lower(labels[c]), <<"a","d","d","e","d">>)
                 /\ ~contains(lower(labels[c]), <<"r","e","c","e","i","p","t">>)}
    IN  IF P = {} THEN 0 ELSE CHOOSE c \in P : \A b \in P : c <= b

\* the first position under which a row below row h has a cell that parses
\* as a date, 0 if none
DateLikeFirst(labels, h) ==
    LET P == {c \in 1..Len(labels) :
                 \E i \in (h + 1)..Len(sheet) : str_to_datetime(Cell(i, c)).t = "ts"}
    IN  IF P = {} THEN 0 ELSE CHOOSE c \in P : \A b \in P : c <= b

\* the amount of row i read in column ac
AmountOf(i, ac) == to_numeric(clean_amount(Cell(i, ac)))

\* the date of row i is no reason to drop it: it parses under the date
\* label, or, without a date label, row i has a date wherever a row has one
DateFine(i, labels, h) ==
    LET dc == DateNamed(labels)
    IN  IF dc > 0 THEN str_to_datetime(Cell(i, dc)).t = "ts"
        ELSE \A c \in 1..Len(labels) :
                 (\E j \in (h + 1)..Len(sheet) : str_to_datetime(Cell(j, c)).t = "ts")
                     => str_to_datetime(Cell(i, c)).t = "ts"

\* a load has returned
RolesLoaded == ret.op = "get_expenses_dataframe"

\* C22: the amount column is the first column whose label holds 'amount',
\* whatever other column is numeric, and, only when no label does, the first
\* column with a numeric-coercible cell: the amounts of the records returned
\* are the cells of that column, and every row with a positive amount there
\* and a clean date gives a record.
C22_AmountRole ==
    RolesLoaded =>
        LET h      == HeaderAt
            labels == IF h = 0 THEN Canonical ELSE sheet[h]
            named  == AmountNamed(labels)
            ac     == IF named > 0 THEN named ELSE NumericFirst(labels, h)
        IN  ac > 0 =>
            /\ \A k \in 1..Len(Loaded) :
                   \E i \in (h + 1)..Len(sheet) :
                       /\ Loaded[k][<<"A","m","o","u","n","t">>] = AmountOf(i, ac)
                       /\ Loaded[k][labels[ac]] \in {Str(Cell(i, ac)), AmountOf(i, ac)}
            /\ \A i \in (h + 1)..Len(sheet) :
                   (AmountOf(i, ac).t = "num" /\ AmountOf(i, ac).n > 0
                        /\ DateFine(i, labels, h))
                   => \E k \in 1..Len(Loaded) : Loaded[k][<<"A","m","o","u","n","t">>] = AmountOf(i, ac)

\* C23: the date column is the first column whose label holds 'date' and
\* neither 'added' nor 'receipt' (under the canonical headers 'Date', never
\* 'Receipt Date' or 'Added Date'), and, only when no label does, the first
\* column with a cell that parses as a date: the dates of the records
\* returned are the cells of that column.
C23_DateRole ==
    RolesLoaded =>
        LET h      == HeaderAt
            labels == IF h = 0 THEN Canonical ELSE sheet[h]
            named  == DateNamed(labels)
            dc     == IF named > 0 THEN named ELSE DateLikeFirst(labels, h)
        IN  /\ labels = Canonical => dc = 1
            /\ dc > 0 =>
                   \A k \in 1..Len(Loaded) :
                       \E i \in (h + 1)..Len(sheet) :
                           /\ Loaded[k][<<"D","a","t","e">>] = str_to_datetime(Cell(i, dc))
                           /\ Loaded[k][labels[dc]] \in
                                  {Str(Cell(i, dc)), str_to_datetime(Cell(i, dc))}

\* the records of the sheet have been assembled
Assembled == ret.op = "records"

\* the rows below row h with a non-blank cell under one of the labels
KeptRows(labels, h) ==
    {i \in (h + 1)..Len(sheet) :
        \E c \in 1..Len(labels) : strip(Cell(i, c)) # <<>>}

\* C24: the records are assembled by position: in the order of the rows,
\* each row with a non-blank cell under a label gives one record, which
\* holds under the c-th label the c-th cell of the row (under a label that
\* occurs twice, the cell of its last place), the empty string where the
\* row is shorter than the header, and nothing for the cells beyond the
\* header; a row whose cells under the labels are all blank gives no record.
C24_PositionalRecords ==
    Assembled =>
        LET h      == HeaderAt
            labels == IF h = 0 THEN Canonical ELSE sheet[h]
            kept   == KeptRows(labels, h)
        IN  /\ Len(Loaded) = Cardinality(kept)
            /\ ret.df.isNone <=> kept = {}
            /\ \A k \in 1..Len(Loaded) :
                   LET i == CHOOSE i \in kept : Cardinality({j \in kept : j <= i}) = k
                   IN  /\ DOMAIN Loaded[k] = SeqToSet(labels)
                       /\ \A c \in 1..Len(labels) :
                              (\A b \in (c + 1)..Len(labels) : labels[b] # labels[c])
                                  => Loaded[k][labels[c]] =
                                         Str(IF c <= Len(sheet[i]) THEN sheet[i][c] ELSE <<>>)

\* under a header of four labels, a row of eight cells whose only non-blank
\* cell is the eighth gives no record, and a row of three cells gives a
\* record with the empty string under the fourth label
C24_Witness ==
    /\ Assembled
    /\ Len(sheet) = 3
    /\ Len(sheet[1]) = 4
    /\ sheet[2] = << <<>>, <<>>, <<>>, <<>>, <<>>, <<>>, <<>>, <<"x">> >>
    /\ Len(sheet[3]) = 3
    /\ Len(Loaded) = 1
    /\ Loaded[1][sheet[1][1]] = Str(sheet[3][1])
    /\ Loaded[1][sheet[1][4]] = Str(<<>>)

(***************************************************************************)
(* Save, then send again (SpecSave).                                       *)
(***************************************************************************)
\* the receipt that add_expense saved has been checked again
Resubmitted ==
    /\ ret.op = "detect_duplicates_again"
    /\ ret.out.text = "True"
    /\ ret.new_expense.total_amount.t = "num"
    /\ ret.new_expense.total_amount.n > 0
    /\ ret.new_expense.merchant.s # <<>>

\* the date the saved row carries is inside the window at the instant of
\* the check: today's date for a receipt without date, else the receipt's
InWindow ==
    \/ ret.new_expense.date.s = <<"D","a","t","e"," ","n","o","t"," ","f","o","u","n","d">>
    \/ /\ str_to_datetime(ret.new_expense.date.s).t = "ts"
       /\ str_to_datetime(ret.new_expense.date.s).n >= now - WindowDays * TicksPerDay

\* C25 as stated: a receipt saved by add_expense and checked again on the
\* same sheet is flagged, whatever its receipt date.
C25_AsStated == Resubmitted => ret.out.is_duplicate

\* C25, amended: on a sheet under the canonical headers, a receipt saved by
\* add_expense and checked again is flagged when the date of its row is not
\* before now - 30 days: the receipt has no date (the row is dated today) or
\* its date is within the last 30 days or in the future.
C25_FlaggedInWindow ==
    (Resubmitted /\ sheet[1] = DefaultHeaders /\ InWindow) => ret.out.is_duplicate

\* a receipt without date, saved on a sheet that had no headers, is flagged
\* when sent again, and so is one dated exactly 30 days back
C25_Witness ==
    /\ Resubmitted
    /\ sheet[1] = DefaultHeaders
    /\ InWindow
    /\ ret.out.is_duplicate
    /\ \/ ret.new_expense.date.s = <<"D","a","t","e"," ","n","o","t"," ","f","o","u","n","d">> /\ Len(sheet) = 3
       \/ ret.new_expense.date.s = <<"2","0","2","4","-","0","2","-","0","9">>

(***************************************************************************)
(* The shared sheet handle (SpecBot).                                      *)
(***************************************************************************)
\* C26: the duplicate check and the add_expense made while handling a photo
\* or a force_save callback of user U work on the sheet registered for U in
\* user_sheets (or on no sheet at all), whatever the other users did before
\* and whether or not connect_to_existing_sheet succeeded for U.
C26_SheetIsolation ==
    bot.last.op \in {"handle_photo", "force_save"} =>
        /\ bot.last.checked \in {"", "none", user_sheets[bot.last.user_id]}
        /\ bot.last.added \in {"", "none", user_sheets[bot.last.user_id]}

\* C27: a flagged receipt is appended at most once, whatever force_save and
\* cancel_save callbacks follow for its message id.
C27_SavedAtMostOnce ==
    \A message_id \in 1..Len(bot.msgs) :
        bot.msgs[message_id].is_duplicate =>
            Len(bot.msgs[message_id].saved_by) <= 1

(***************************************************************************)
(* The bounds of the candidate pool (SpecWindow).                          *)
(***************************************************************************)
\* the rows of the sheet that load to a record dated at or after instant t
RowsSince(t) ==
    {i \in 2..Len(sheet) :
        /\ ValidRow(i, 2, 4)
        /\ str_to_datetime(Cell(i, 4)).n >= t}

\* C28: the pool has a lower bound only: every record dated at or after
\* now - 30 days, the records dated in the future included, is compared with
\* the receipt (and flagged when it has the receipt's merchant and amount),
\* and no record dated before that instant is.
C28_LowerBoundOnly ==
    DetectReturned =>
        LET limit == now - WindowDays * TicksPerDay
            since == RowsSince(limit)
        IN  /\ Len(Compared) = Cardinality(since)
            /\ \A k \in 1..Len(Compared) : Compared[k][<<"D","a","t","e">>].n >= limit
            /\ \A i \in since :
                   \E k \in 1..Len(Compared) :
                       /\ Compared[k][<<"D","a","t","e">>] = str_to_datetime(Cell(i, 4))
                       /\ Compared[k][<<"S","t","o","r","e","/","M","e","r","c","h","a","n","t">>] = Str(Cell(i, 1))
            /\ Len(Found) = Cardinality({i \in since : Cell(i, 1) = <<"J","o","l","l","i","b","e","e">>})

\* a record dated three weeks ahead is compared and flagged, next to a
\* record that fell out of the window when the clock moved on
C28_Witness ==
    /\ DetectReturned
    /\ now > StartTick
    /\ Len(sheet) = 3
    /\ Cell(2, 4) = FutureDate
    /\ Cell(3, 4) = EdgeDate
    /\ Len(Compared) = 1
    /\ Compared[1][<<"D","a","t","e">>].n > now
    /\ Len(Found) = 1

(***************************************************************************)
(* The budget status (SpecBudget).                                         *)
(***************************************************************************)
\* get_budget_status has returned or raised
StatusReturned == ret.op = "get_budget_status"

Called(spent, budget_amount) ==
    IF spent * 100 >= 90 * budget_amount THEN "alert"
    ELSE IF spent * 100 >= 75 * budget_amount THEN "warning"
    ELSE "none"

\* C30: check_budget_alerts returns a list and does not raise, whatever
\* budgets were set (a budget of 0 included) and whatever the spending: for
\* the total budget and for the category budget it holds an alert when 90
\* percent or more is used, a warning from 75 percent up to 90, nothing below.
C30_AlertsNeverRaise ==
    ret.op = "check_budget_alerts" =>
        LET r == ret.out
            s == r.current_spending
            about(a) == {k \in 1..Len(r.alerts) : r.alerts[k].about = a}
        IN  /\ ~r.raised
            /\ (bot.total # Absent /\ s.total # Absent /\ s.total.n > 0) =>
                   IF Called(s.total.n, bot.total.n) = "none" THEN about("total") = {}
                   ELSE \E k \in about("total") :
                            r.alerts[k].kind = Called(s.total.n, bot.total.n)
            /\ (bot.food # Absent /\ s.food # Absent) =>
                   IF Called(s.food.n, bot.food.n) = "none" THEN about("food") = {}
                   ELSE \E k \in about("food") :
                            r.alerts[k].kind = Called(s.food.n, bot.food.n)

=============================================================================
